---------------------------- MODULE Spec2Model ----------------------------
(***************************************************************************)
(* A model of the logger dispatch core of spdlog-rs (src/src/logger.rs):   *)
(* Logger::log / Logger::flush fan a record out to the sinks of a logger,  *)
(* sink errors go to the error handler, set_flush_period owns at most one  *)
(* periodic flush worker, and Clone duplicates a logger; and of            *)
(* StdStreamSink (src/spdlog/src/sink/std_stream_sink.rs), which formats a *)
(* record, writes it to stdout or stderr under the stream's lock, with or  *)
(* without style codes, of the level checks of loggers and sinks, of       *)
(* BasicLogger (src/src/logger/basic_logger.rs) and of the Full pattern.   *)
(***************************************************************************)
EXTENDS Integers, Sequences, FiniteSets, TLC

(***************************************************************************)
(* Bounds of the model.                                                    *)
(***************************************************************************)
NSinks == 2
MaxWorkers == 2
MaxTime == 3
MaxInterval == 2
MaxBuf == 2
MaxPatterns == 3

(***************************************************************************)
(* Values.                                                                 *)
(***************************************************************************)
\* Level, most severe first.
Levels == <<"Critical", "Error", "Warn", "Info", "Debug", "Trace">>

Rank(level) == CHOOSE i \in 1..Len(Levels) : Levels[i] = level

Off == [kind |-> "Off", level |-> "-"]

All == [kind |-> "All", level |-> "-"]

MoreSevereEqual(level) == [kind |-> "MoreSevereEqual", level |-> level]

Equal(level) == [kind |-> "Equal", level |-> level]

\* LevelFilter::compare
Compare(filter, level) ==
    CASE filter.kind = "Off" -> FALSE
      [] filter.kind = "All" -> TRUE
      [] filter.kind = "MoreSevereEqual" -> Rank(level) <= Rank(filter.level)
      [] filter.kind = "Equal" -> level = filter.level

\* Option<Duration>
None == [some |-> FALSE, d |-> 0]

Some(d) == [some |-> TRUE, d |-> d]

\* The levels of the records, the filters, handlers and flush periods the
\* callers pass in.
LevelInputs == {"Warn", "Info", "Debug"}

FilterInputs == {Off, MoreSevereEqual("Warn"), MoreSevereEqual("Info")}

HandlerInputs == {"h1"}

IntervalInputs == {None} \cup {Some(d) : d \in 0..MaxInterval}

Threads == {"t1", "t2"}

\* The thread that logs and flushes; the setters run beside it.
Dispatchers == {"t1"}

LoggerIds == {"builder", "main", "dup"}

SinkIds == 1..NSinks

WorkerIds == 1..MaxWorkers

\* The sinks' own level filters: odd sinks take everything, even sinks
\* take Warn and more severe.
SinkLevelFilter(s) == IF s % 2 = 1 THEN All ELSE MoreSevereEqual("Warn")

NoCall == [op |-> "none", logger |-> "-", level |-> "-", idx |-> 0,
           lf |-> Off, ff |-> Off, ret |-> "-", errsink |-> 0,
           interval |-> None, worker |-> 0, panic |-> FALSE]

\* enum StdStream
StdStream == {"Stdout", "Stderr"}

\* enum StyleMode
StyleMode == {"Always", "Auto", "Never"}

\* Option<Range<usize>>, the style range of a formatted record
NoRange == [some |-> FALSE, start |-> 0, end |-> 0]

SomeRange(a, b) == [some |-> TRUE, start |-> a, end |-> b]

NoStdCall == [op |-> "none", level |-> "-", string_buf |-> <<>>,
              style_range |-> NoRange, written |-> 0, result |-> "-"]

NoCheck == [by |-> "-", filter |-> Off, level |-> "-", result |-> FALSE]

\* A pass that has not run a pattern yet: StringBuf::new() and a fresh
\* PatternContext.
NewPass == [dest |-> <<>>, style_range |-> NoRange, patterns |-> <<>>,
            result |-> "Ok", full |-> [ok |-> TRUE, string_buf |-> <<>>,
                                       style_range |-> NoRange]]

\* BasicLogger::new
BasicLoggerNew == [level |-> MoreSevereEqual("Info"), sinks |-> <<>>,
                   error_handler |-> "none"]

NoWorker == [state |-> "unborn", logger |-> "-", interval |-> 0, start |-> 0,
             wake |-> 0, idx |-> 0, stop |-> FALSE, strong |-> FALSE,
             passes |-> 0, nflush |-> 0]

Event(ev, s, res) == [ev |-> ev, sink |-> s, res |-> res]

VARIABLES
    \* struct Logger, one per logger id
    alive,              \* "none" | "alive" | "dropped"
    owners,             \* strong references held by the program (Arc)
    level_filter,
    sinks,
    flush_level_filter,
    periodic_flusher,   \* 0 = None, else the id of the PeriodicWorker
    pf_guard,           \* holder of the periodic_flusher mutex, "-" = free
    pf_poisoned,        \* the periodic_flusher mutex is poisoned
    error_handler,      \* "none" | a handler
    \* caller threads
    pc,
    call,
    trace,              \* what the current call did, in order
    \* periodic workers and the clock
    workers,
    now,
    \* struct StdStreamSink, its destination and its callers
    std_sink,           \* dest, should_render_style, level_filter, formatter
    terminal,           \* is_terminal of the two streams, the capability probe
    dest_lock,          \* holder of the destination's lock, "-" = free
    formatter_lock,     \* the threads holding the formatter's read lock
    std_pc,
    std_call,
    dest_ops,           \* the writes and flushes the destination received
    \* the level checks
    checked,            \* the last level check and its result
    \* struct BasicLogger
    basic_logger,       \* level, sinks, error_handler
    \* one pass of a pattern formatter over a record
    pattern_pass        \* dest, the context's style range, the patterns run

loggerVars == <<alive, owners, level_filter, sinks, flush_level_filter,
                periodic_flusher, pf_guard, pf_poisoned, error_handler>>

threadVars == <<pc, call, trace>>

workerVars == <<workers, now>>

stdVars == <<std_sink, terminal, dest_lock, formatter_lock, std_pc, std_call,
             dest_ops, checked>>

vars == <<loggerVars, threadVars, workerVars, stdVars, basic_logger,
         pattern_pass>>

(***************************************************************************)
(* Logger::new and the builder.                                            *)
(***************************************************************************)
\* Logger::new
NewLogger == [level_filter |-> MoreSevereEqual("Info"),
              sinks |-> <<>>,
              flush_level_filter |-> Off,
              periodic_flusher |-> 0,
              error_handler |-> "none"]

InitThreads ==
    /\ pc = [t \in Threads |-> "idle"]
    /\ call = [t \in Threads |-> NoCall]
    /\ trace = [t \in Threads |-> <<>>]

InitWorkers ==
    /\ workers = [w \in WorkerIds |-> NoWorker]
    /\ now = 0

\* No StdStreamSink call runs and none ran.
NoStdStreamSink ==
    /\ std_sink = [dest |-> "Stdout", style_mode |-> "Never",
                   should_render_style |-> FALSE, level_filter |-> All,
                   formatter |-> "f1"]
    /\ terminal = [is_terminal |-> [s \in StdStream |-> FALSE], ansi |-> TRUE]
    /\ dest_lock = "-"
    /\ formatter_lock = {}
    /\ std_pc = [t \in Threads |-> "idle"]
    /\ std_call = [t \in Threads |-> NoStdCall]
    /\ dest_ops = <<>>
    /\ checked = NoCheck

\* Logger::builder(): a LoggerBuilder holding Logger::new()
InitBuilder ==
    /\ alive = [l \in LoggerIds |-> IF l = "builder" THEN "alive" ELSE "none"]
    /\ owners = [l \in LoggerIds |-> 0]
    /\ level_filter = [l \in LoggerIds |-> NewLogger.level_filter]
    /\ sinks = [l \in LoggerIds |-> NewLogger.sinks]
    /\ flush_level_filter = [l \in LoggerIds |-> NewLogger.flush_level_filter]
    /\ periodic_flusher = [l \in LoggerIds |-> NewLogger.periodic_flusher]
    /\ pf_guard = [l \in LoggerIds |-> "-"]
    /\ pf_poisoned = [l \in LoggerIds |-> FALSE]
    /\ error_handler = [l \in LoggerIds |-> NewLogger.error_handler]
    /\ InitThreads
    /\ InitWorkers
    /\ basic_logger = BasicLoggerNew
    /\ pattern_pass = NewPass

Init == InitBuilder /\ NoStdStreamSink

Range(seq) == {seq[i] : i \in 1..Len(seq)}

\* LoggerBuilder::sink
BuilderSink(s) ==
    /\ alive["builder"] = "alive"
    /\ s \notin Range(sinks["builder"])
    /\ sinks' = [sinks EXCEPT !["builder"] = Append(@, s)]
    /\ UNCHANGED <<alive, owners, level_filter, flush_level_filter,
                   periodic_flusher, pf_guard, pf_poisoned, error_handler>>
    /\ UNCHANGED <<threadVars, workerVars, stdVars, basic_logger, pattern_pass>>

\* Mutant: the duplicate starts with the flush-level filter of Logger::new.
CloneFields_FreshFlushLevel(src, lf, ff) ==
    [level_filter |-> lf,
     sinks |-> sinks[src],
     flush_level_filter |-> NewLogger.flush_level_filter,
     periodic_flusher |-> 0,
     error_handler |-> error_handler[src]]

\* Mutant: the duplicate starts without an error handler.
CloneFields_NoHandler(src, lf, ff) ==
    [level_filter |-> lf,
     sinks |-> sinks[src],
     flush_level_filter |-> ff,
     periodic_flusher |-> 0,
     error_handler |-> "none"]

\* The struct literal of Clone::clone; lf and ff are the values
\* self.level_filter() and self.flush_level_filter() loaded.
CloneFields(src, lf, ff) ==
    [level_filter |-> lf,
     sinks |-> sinks[src],
     flush_level_filter |-> ff,
     periodic_flusher |-> 0,
     error_handler |-> error_handler[src]]

\* The clone of the builder's logger; nothing else holds the builder.
BuilderClone == CloneFields("builder", level_filter["builder"],
                            flush_level_filter["builder"])

\* LoggerBuilder::build: self.logger.clone(); the builder is not used again.
Build ==
    /\ alive["builder"] = "alive"
    /\ alive["main"] = "none"
    /\ alive' = [alive EXCEPT !["builder"] = "dropped", !["main"] = "alive"]
    /\ owners' = [owners EXCEPT !["main"] = 1]
    /\ level_filter' = [level_filter EXCEPT !["main"] = BuilderClone.level_filter]
    /\ sinks' = [sinks EXCEPT !["main"] = BuilderClone.sinks]
    /\ flush_level_filter' = [flush_level_filter EXCEPT
                                 !["main"] = BuilderClone.flush_level_filter]
    /\ periodic_flusher' = [periodic_flusher EXCEPT
                                 !["main"] = BuilderClone.periodic_flusher]
    /\ error_handler' = [error_handler EXCEPT !["main"] = BuilderClone.error_handler]
    /\ UNCHANGED <<pf_guard, pf_poisoned>>
    /\ UNCHANGED <<threadVars, workerVars, stdVars, basic_logger, pattern_pass>>

(***************************************************************************)
(* Logger::log, Logger::flush and the setters.                             *)
(***************************************************************************)
\* A caller can use a logger it holds a reference to.
Usable(l) == alive[l] = "alive" /\ owners[l] > 0

\* Logger::should_log
should_log(l, level) == Compare(level_filter[l], level)

\* Mutant: the flush decision reads the log-level filter.
should_flush_ByLogLevel(l, level) == Compare(level_filter[l], level)

\* Logger::should_flush
should_flush(l, level) == Compare(flush_level_filter[l], level)

\* Sink::should_log
sink_should_log(s, level) == Compare(SinkLevelFilter(s), level)

\* The handler Logger::handle_error hands the error to.
HandlerOf(l) == IF error_handler[l] # "none" THEN error_handler[l] ELSE "default"

\* Mutant: a rejected record skips the sinks but still reaches the flush check.
Log_NoEarlyReturn(t, l, level) ==
    /\ pc[t] = "idle"
    /\ Usable(l)
    /\ pc' = [pc EXCEPT ![t] = "sink_record"]
    /\ call' = [call EXCEPT ![t] = [NoCall EXCEPT !.op = "log", !.logger = l,
                                       !.level = level,
                                       !.idx = IF should_log(l, level)
                                                 THEN 1 ELSE Len(sinks[l]) + 1,
                                       !.lf = level_filter[l]]]
    /\ trace' = [trace EXCEPT ![t] = <<>>]
    /\ UNCHANGED <<loggerVars, workerVars, stdVars, basic_logger, pattern_pass>>

\* Logger::log: the level check, then sink_record.
Log(t, l, level) ==
    /\ pc[t] = "idle"
    /\ Usable(l)
    /\ IF ~should_log(l, level)
         THEN pc' = [pc EXCEPT ![t] = "done"]
         ELSE pc' = [pc EXCEPT ![t] = "sink_record"]
    /\ call' = [call EXCEPT ![t] = [NoCall EXCEPT !.op = "log", !.logger = l,
                                       !.level = level, !.idx = 1,
                                       !.lf = level_filter[l]]]
    /\ trace' = [trace EXCEPT ![t] = <<>>]
    /\ UNCHANGED <<loggerVars, workerVars, stdVars, basic_logger, pattern_pass>>

\* Mutant: the logger's level filter is read again before every sink.
SinkRecordStep_RereadLevel(t) ==
    LET c == call[t]
        s == sinks[c.logger][c.idx]
    IN  /\ pc[t] = "sink_record"
        /\ c.idx <= Len(sinks[c.logger])
        /\ IF should_log(c.logger, c.level) /\ sink_should_log(s, c.level)
             THEN \E res \in {"Ok", "Err"} :
                    /\ trace' = [trace EXCEPT ![t] = Append(@, Event("log", s, res))]
                    /\ IF res = "Err"
                         THEN /\ pc' = [pc EXCEPT ![t] = "handle_error"]
                              /\ call' = [call EXCEPT ![t].ret = "sink_record",
                                                      ![t].errsink = s]
                         ELSE /\ pc' = pc
                              /\ call' = [call EXCEPT ![t].idx = @ + 1]
             ELSE /\ trace' = trace
                  /\ pc' = pc
                  /\ call' = [call EXCEPT ![t].idx = @ + 1]
        /\ UNCHANGED <<loggerVars, workerVars, stdVars, basic_logger, pattern_pass>>

\* Mutant: the loop stops at the first sink that returns Err.
SinkRecordStep_StopAtErr(t) ==
    LET c == call[t]
        s == sinks[c.logger][c.idx]
    IN  /\ pc[t] = "sink_record"
        /\ c.idx <= Len(sinks[c.logger])
        /\ IF sink_should_log(s, c.level)
             THEN \E res \in {"Ok", "Err"} :
                    /\ trace' = [trace EXCEPT ![t] = Append(@, Event("log", s, res))]
                    /\ IF res = "Err"
                         THEN /\ pc' = [pc EXCEPT ![t] = "handle_error"]
                              /\ call' = [call EXCEPT ![t].ret = "sink_record",
                                                      ![t].errsink = s,
                                                      ![t].idx = Len(sinks[c.logger])]
                         ELSE /\ pc' = pc
                              /\ call' = [call EXCEPT ![t].idx = @ + 1]
             ELSE /\ trace' = trace
                  /\ pc' = pc
                  /\ call' = [call EXCEPT ![t].idx = @ + 1]
        /\ UNCHANGED <<loggerVars, workerVars, stdVars, basic_logger, pattern_pass>>

\* Logger::sink_record, one turn of the loop over self.sinks.
SinkRecordStep(t) ==
    LET c == call[t]
        s == sinks[c.logger][c.idx]
    IN  /\ pc[t] = "sink_record"
        /\ c.idx <= Len(sinks[c.logger])
        /\ IF sink_should_log(s, c.level)
             THEN \E res \in {"Ok", "Err"} :
                    /\ trace' = [trace EXCEPT ![t] = Append(@, Event("log", s, res))]
                    /\ IF res = "Err"
                         THEN /\ pc' = [pc EXCEPT ![t] = "handle_error"]
                              /\ call' = [call EXCEPT ![t].ret = "sink_record",
                                                      ![t].errsink = s]
                         ELSE /\ pc' = pc
                              /\ call' = [call EXCEPT ![t].idx = @ + 1]
             ELSE /\ trace' = trace
                  /\ pc' = pc
                  /\ call' = [call EXCEPT ![t].idx = @ + 1]
        /\ UNCHANGED <<loggerVars, workerVars, stdVars, basic_logger, pattern_pass>>

\* Logger::sink_record after the loop: if self.should_flush(record) { self.flush() }
SinkRecordFlush(t) ==
    LET c == call[t]
    IN  /\ pc[t] = "sink_record"
        /\ c.idx > Len(sinks[c.logger])
        /\ IF should_flush(c.logger, c.level)
             THEN pc' = [pc EXCEPT ![t] = "flush_sinks"]
             ELSE pc' = [pc EXCEPT ![t] = "done"]
        /\ call' = [call EXCEPT ![t].idx = 1,
                                ![t].ff = flush_level_filter[c.logger]]
        /\ UNCHANGED <<trace, loggerVars, workerVars, stdVars, basic_logger, pattern_pass>>

\* Logger::flush
Flush(t, l) ==
    /\ pc[t] = "idle"
    /\ Usable(l)
    /\ pc' = [pc EXCEPT ![t] = "flush_sinks"]
    /\ call' = [call EXCEPT ![t] = [NoCall EXCEPT !.op = "flush", !.logger = l,
                                                   !.idx = 1]]
    /\ trace' = [trace EXCEPT ![t] = <<>>]
    /\ UNCHANGED <<loggerVars, workerVars, stdVars, basic_logger, pattern_pass>>

\* Mutant: the loop walks the sink list from its end.
FlushSinksStep_Reverse(t) ==
    LET c == call[t]
        s == sinks[c.logger][Len(sinks[c.logger]) - c.idx + 1]
    IN  /\ pc[t] = "flush_sinks"
        /\ c.idx <= Len(sinks[c.logger])
        /\ \E res \in {"Ok", "Err"} :
             /\ trace' = [trace EXCEPT ![t] = Append(@, Event("flush", s, res))]
             /\ IF res = "Err"
                  THEN /\ pc' = [pc EXCEPT ![t] = "handle_error"]
                       /\ call' = [call EXCEPT ![t].ret = "flush_sinks",
                                               ![t].errsink = s]
                  ELSE /\ pc' = pc
                       /\ call' = [call EXCEPT ![t].idx = @ + 1]
        /\ UNCHANGED <<loggerVars, workerVars, stdVars, basic_logger, pattern_pass>>

\* Logger::flush_sinks, one turn of the loop over self.sinks.
FlushSinksStep(t) ==
    LET c == call[t]
        s == sinks[c.logger][c.idx]
    IN  /\ pc[t] = "flush_sinks"
        /\ c.idx <= Len(sinks[c.logger])
        /\ \E res \in {"Ok", "Err"} :
             /\ trace' = [trace EXCEPT ![t] = Append(@, Event("flush", s, res))]
             /\ IF res = "Err"
                  THEN /\ pc' = [pc EXCEPT ![t] = "handle_error"]
                       /\ call' = [call EXCEPT ![t].ret = "flush_sinks",
                                               ![t].errsink = s]
                  ELSE /\ pc' = pc
                       /\ call' = [call EXCEPT ![t].idx = @ + 1]
        /\ UNCHANGED <<loggerVars, workerVars, stdVars, basic_logger, pattern_pass>>

\* Logger::flush_sinks, the loop is over.
FlushSinksEnd(t) ==
    /\ pc[t] = "flush_sinks"
    /\ call[t].idx > Len(sinks[call[t].logger])
    /\ pc' = [pc EXCEPT ![t] = "done"]
    /\ UNCHANGED <<call, trace, loggerVars, workerVars, stdVars, basic_logger, pattern_pass>>

\* Mutant: with no handler set the error is dropped.
HandleError_IgnoreUnset(t) ==
    LET c == call[t]
    IN  /\ pc[t] = "handle_error"
        /\ trace' = [trace EXCEPT ![t] =
                        IF error_handler[c.logger] = "none" THEN @
                        ELSE Append(@, Event("handle", c.errsink,
                                             error_handler[c.logger]))]
        /\ pc' = [pc EXCEPT ![t] = c.ret]
        /\ call' = [call EXCEPT ![t].idx = @ + 1, ![t].ret = "-", ![t].errsink = 0]
        /\ UNCHANGED <<loggerVars, workerVars, stdVars, basic_logger, pattern_pass>>

\* Logger::handle_error: the handler runs under the read lock of
\* error_handler, then the loop goes on with the next sink.
HandleError(t) ==
    LET c == call[t]
    IN  /\ pc[t] = "handle_error"
        /\ trace' = [trace EXCEPT ![t] = Append(@, Event("handle", c.errsink,
                                                         HandlerOf(c.logger)))]
        /\ pc' = [pc EXCEPT ![t] = c.ret]
        /\ call' = [call EXCEPT ![t].idx = @ + 1, ![t].ret = "-", ![t].errsink = 0]
        /\ UNCHANGED <<loggerVars, workerVars, stdVars, basic_logger, pattern_pass>>

\* The call returns to its caller.
Return(t) ==
    /\ pc[t] = "done"
    /\ pc' = [pc EXCEPT ![t] = "idle"]
    /\ call' = [call EXCEPT ![t] = NoCall]
    /\ trace' = [trace EXCEPT ![t] = <<>>]
    /\ UNCHANGED <<loggerVars, workerVars, stdVars, basic_logger, pattern_pass>>

\* Logger::set_level_filter
SetLevelFilter(l, f) ==
    /\ Usable(l)
    /\ level_filter' = [level_filter EXCEPT ![l] = f]
    /\ UNCHANGED <<alive, owners, sinks, flush_level_filter, periodic_flusher,
                   pf_guard, pf_poisoned, error_handler>>
    /\ UNCHANGED <<threadVars, workerVars, stdVars, basic_logger, pattern_pass>>

\* Logger::set_flush_level_filter
SetFlushLevelFilter(l, f) ==
    /\ Usable(l)
    /\ flush_level_filter' = [flush_level_filter EXCEPT ![l] = f]
    /\ UNCHANGED <<alive, owners, level_filter, sinks, periodic_flusher,
                   pf_guard, pf_poisoned, error_handler>>
    /\ UNCHANGED <<threadVars, workerVars, stdVars, basic_logger, pattern_pass>>

\* Logger::set_error_handler
SetErrorHandler(l, h) ==
    /\ Usable(l)
    /\ error_handler' = [error_handler EXCEPT ![l] = h]
    /\ UNCHANGED <<alive, owners, level_filter, sinks, flush_level_filter,
                   periodic_flusher, pf_guard, pf_poisoned>>
    /\ UNCHANGED <<threadVars, workerVars, stdVars, basic_logger, pattern_pass>>

Next ==
    \/ \E s \in SinkIds : BuilderSink(s)
    \/ Build
    \/ \E t \in Dispatchers, level \in LevelInputs : Log(t, "main", level)
    \/ \E t \in Dispatchers : SinkRecordStep(t)
    \/ \E t \in Dispatchers : SinkRecordFlush(t)
    \/ \E t \in Dispatchers : Flush(t, "main")
    \/ \E t \in Dispatchers : FlushSinksStep(t)
    \/ \E t \in Dispatchers : FlushSinksEnd(t)
    \/ \E t \in Dispatchers : HandleError(t)
    \/ \E t \in Dispatchers : Return(t)
    \/ \E f \in FilterInputs : SetLevelFilter("main", f)
    \/ \E f \in FilterInputs : SetFlushLevelFilter("main", f)
    \/ \E h \in HandlerInputs \cup {"none"} : SetErrorHandler("main", h)

Spec == Init /\ [][Next]_vars


(***************************************************************************)
(* Logger::set_flush_period and the periodic flush worker.                 *)
(***************************************************************************)
\* Arc::new(Logger::builder().sink(..).build()), as in tests::periodic_flush.
InitArc ==
    /\ alive = [l \in LoggerIds |-> IF l = "main" THEN "alive"
                                   ELSE IF l = "builder" THEN "dropped" ELSE "none"]
    /\ owners = [l \in LoggerIds |-> IF l = "main" THEN 1 ELSE 0]
    /\ level_filter = [l \in LoggerIds |-> NewLogger.level_filter]
    /\ sinks = [l \in LoggerIds |-> IF l = "main" THEN [i \in 1..NSinks |-> i]
                                   ELSE NewLogger.sinks]
    /\ flush_level_filter = [l \in LoggerIds |-> NewLogger.flush_level_filter]
    /\ periodic_flusher = [l \in LoggerIds |-> NewLogger.periodic_flusher]
    /\ pf_guard = [l \in LoggerIds |-> "-"]
    /\ pf_poisoned = [l \in LoggerIds |-> FALSE]
    /\ error_handler = [l \in LoggerIds |-> NewLogger.error_handler]
    /\ InitThreads
    /\ InitWorkers
    /\ basic_logger = BasicLoggerNew
    /\ pattern_pass = NewPass
    /\ NoStdStreamSink

\* The worker threads that exist and have not ended.
ActiveWorkers(l) ==
    {w \in WorkerIds : workers[w].logger = l
                       /\ workers[w].state \notin {"unborn", "terminated"}}

Unborn == {w \in WorkerIds : workers[w].state = "unborn"}

\* A worker's callback holds the Arc it upgraded its Weak to.
HoldsStrong(l) == \E w \in WorkerIds : workers[w].logger = l /\ workers[w].strong

\* A thread is inside a call on the logger and borrows it.
Busy(l) == \E t \in Threads : pc[t] # "idle" /\ call[t].logger = l

\* Calls under way that will still start a worker.
Starting == {t \in Threads : pc[t] \in {"sfp_drop", "sfp_join", "sfp_new"}
                             /\ call[t].ret # "done"
                             /\ call[t].interval.some /\ call[t].interval.d > 0}

\* Mutant: the call does not hold the periodic_flusher mutex.
SfpLock_NoLock(t, l, interval) ==
    /\ pc[t] = "idle"
    /\ Usable(l)
    /\ (interval.some /\ interval.d > 0) => Cardinality(Unborn) > Cardinality(Starting)
    /\ pc' = [pc EXCEPT ![t] = "sfp_drop"]
    /\ call' = [call EXCEPT ![t] = [NoCall EXCEPT !.op = "set_flush_period",
                                       !.logger = l, !.interval = interval]]
    /\ trace' = [trace EXCEPT ![t] = <<>>]
    /\ UNCHANGED <<loggerVars, workerVars, stdVars, basic_logger, pattern_pass>>

\* Logger::set_flush_period: self.periodic_flusher.lock().unwrap()
SfpLock(t, l, interval) ==
    /\ pc[t] = "idle"
    /\ Usable(l)
    /\ pf_guard[l] = "-"
    /\ (interval.some /\ interval.d > 0) => Cardinality(Unborn) > Cardinality(Starting)
    /\ IF pf_poisoned[l]
         THEN /\ pc' = [pc EXCEPT ![t] = "done"]
              /\ call' = [call EXCEPT ![t] = [NoCall EXCEPT !.op = "set_flush_period",
                                                 !.logger = l, !.interval = interval,
                                                 !.panic = TRUE]]
              /\ pf_guard' = pf_guard
         ELSE /\ pc' = [pc EXCEPT ![t] = "sfp_drop"]
              /\ call' = [call EXCEPT ![t] = [NoCall EXCEPT !.op = "set_flush_period",
                                                 !.logger = l, !.interval = interval]]
              /\ pf_guard' = [pf_guard EXCEPT ![l] = t]
    /\ trace' = [trace EXCEPT ![t] = <<>>]
    /\ UNCHANGED <<alive, owners, level_filter, sinks, flush_level_filter,
                   periodic_flusher, pf_poisoned, error_handler>>
    /\ UNCHANGED <<workerVars, stdVars, basic_logger, pattern_pass>>

\* Mutant: the old worker is not dropped before the new one is made.
SfpDropOld_Skip(t) ==
    /\ pc[t] = "sfp_drop"
    /\ pc' = [pc EXCEPT ![t] = "sfp_new"]
    /\ UNCHANGED <<call, trace, loggerVars, workerVars, stdVars, basic_logger, pattern_pass>>

\* Logger::set_flush_period: *periodic_flusher = None drops the worker the
\* logger owned: the worker is told to stop and its thread is joined.
SfpDropOld(t) ==
    LET l == call[t].logger
        old == periodic_flusher[l]
    IN  /\ pc[t] = "sfp_drop"
        /\ IF old = 0
             THEN /\ pc' = [pc EXCEPT ![t] = "sfp_new"]
                  /\ UNCHANGED <<call, periodic_flusher, workers>>
             ELSE /\ pc' = [pc EXCEPT ![t] = "sfp_join"]
                  /\ call' = [call EXCEPT ![t].worker = old, ![t].ret = "sfp_new"]
                  /\ periodic_flusher' = [periodic_flusher EXCEPT ![l] = 0]
                  /\ workers' = [workers EXCEPT ![old].stop = TRUE]
        /\ UNCHANGED <<alive, owners, level_filter, sinks, flush_level_filter,
                       pf_guard, pf_poisoned, error_handler>>
        /\ UNCHANGED <<trace, now, stdVars, basic_logger, pattern_pass>>

\* Drop for PeriodicWorker: the join returns when the worker thread ended.
SfpJoin(t) ==
    LET l == call[t].logger
    IN  /\ pc[t] = "sfp_join"
        /\ workers[call[t].worker].state = "terminated"
        /\ pc' = [pc EXCEPT ![t] = call[t].ret]
        /\ call' = [call EXCEPT ![t].worker = 0, ![t].ret = "-"]
        /\ pf_guard' = IF call[t].ret = "done"
                         THEN [pf_guard EXCEPT ![l] = "-"] ELSE pf_guard
        /\ UNCHANGED <<alive, owners, level_filter, sinks, flush_level_filter,
                       periodic_flusher, pf_poisoned, error_handler>>
        /\ UNCHANGED <<trace, workerVars, stdVars, basic_logger, pattern_pass>>

\* PeriodicWorker::new: a thread that sleeps for interval, then runs the
\* callback, and goes on while the callback returns true.
NewWorker(l, d) ==
    [NoWorker EXCEPT !.state = "sleeping", !.logger = l, !.interval = d,
                     !.start = now, !.wake = now + d]

\* Mutant: a zero interval is taken like any other and gets a worker.
SfpNew_ZeroAccepted(t) ==
    LET l == call[t].logger
        interval == call[t].interval
        old == periodic_flusher[l]
        new == CHOOSE w \in Unborn : \A v \in Unborn : w <= v
    IN  /\ pc[t] = "sfp_new"
        /\ pc' = [pc EXCEPT ![t] = "done"]
        /\ pf_guard' = [pf_guard EXCEPT ![l] = "-"]
        /\ IF ~interval.some \/ Unborn = {}
             THEN UNCHANGED <<periodic_flusher, workers>>
             ELSE /\ periodic_flusher' = [periodic_flusher EXCEPT ![l] = new]
                  /\ workers' = [w \in WorkerIds |->
                                   IF w = new THEN NewWorker(l, interval.d)
                                   ELSE IF w = old THEN [workers[w] EXCEPT !.stop = TRUE]
                                   ELSE workers[w]]
        /\ UNCHANGED <<call, pf_poisoned>>
        /\ UNCHANGED <<alive, owners, level_filter, sinks, flush_level_filter,
                       error_handler>>
        /\ UNCHANGED <<trace, now, stdVars, basic_logger, pattern_pass>>

\* Logger::set_flush_period: if let Some(interval) = interval
\*   { *periodic_flusher = Some(PeriodicWorker::new(callback, interval)) }
\* and the guard is dropped.  A zero interval panics in PeriodicWorker::new,
\* under the guard, which poisons the mutex.
SfpNew(t) ==
    LET l == call[t].logger
        interval == call[t].interval
        old == periodic_flusher[l]
        new == CHOOSE w \in Unborn : \A v \in Unborn : w <= v
    IN  /\ pc[t] = "sfp_new"
        /\ CASE ~interval.some ->
                  /\ pc' = [pc EXCEPT ![t] = "done"]
                  /\ pf_guard' = [pf_guard EXCEPT ![l] = "-"]
                  /\ UNCHANGED <<call, periodic_flusher, pf_poisoned, workers>>
             [] interval.some /\ interval.d = 0 ->
                  /\ pc' = [pc EXCEPT ![t] = "done"]
                  /\ call' = [call EXCEPT ![t].panic = TRUE]
                  /\ pf_guard' = [pf_guard EXCEPT ![l] = "-"]
                  /\ pf_poisoned' = [pf_poisoned EXCEPT ![l] = TRUE]
                  /\ UNCHANGED <<periodic_flusher, workers>>
             [] interval.some /\ interval.d > 0 ->
                  /\ Unborn # {}
                  /\ periodic_flusher' = [periodic_flusher EXCEPT ![l] = new]
                  /\ workers' = [w \in WorkerIds |->
                                   IF w = new THEN NewWorker(l, interval.d)
                                   ELSE IF w = old THEN [workers[w] EXCEPT !.stop = TRUE]
                                   ELSE workers[w]]
                  /\ IF old = 0
                       THEN /\ pc' = [pc EXCEPT ![t] = "done"]
                            /\ pf_guard' = [pf_guard EXCEPT ![l] = "-"]
                            /\ call' = call
                       ELSE /\ pc' = [pc EXCEPT ![t] = "sfp_join"]
                            /\ pf_guard' = pf_guard
                            /\ call' = [call EXCEPT ![t].worker = old,
                                                    ![t].ret = "done"]
                  /\ UNCHANGED pf_poisoned
        /\ UNCHANGED <<alive, owners, level_filter, sinks, flush_level_filter,
                       error_handler>>
        /\ UNCHANGED <<trace, now, stdVars, basic_logger, pattern_pass>>

\* The worker's sleep is over and it was not told to stop: the callback
\* runs, weak.upgrade() gives Some while the logger lives.
WorkerWake(w) ==
    LET l == workers[w].logger
    IN  /\ workers[w].state = "sleeping"
        /\ ~workers[w].stop
        /\ now = workers[w].wake
        /\ IF alive[l] = "alive"
             THEN workers' = [workers EXCEPT ![w].state = "flush_sinks",
                                             ![w].strong = TRUE, ![w].idx = 1]
             ELSE workers' = [workers EXCEPT ![w].state = "terminated"]
        /\ UNCHANGED <<loggerVars, threadVars, now, stdVars, basic_logger, pattern_pass>>

\* The sleeping worker was told to stop: its thread ends.
WorkerStop(w) ==
    /\ workers[w].state = "sleeping"
    /\ workers[w].stop
    /\ workers' = [workers EXCEPT ![w].state = "terminated"]
    /\ UNCHANGED <<loggerVars, threadVars, now, stdVars, basic_logger, pattern_pass>>

\* strong.flush_sinks() in the callback, one turn of the loop: the sink is
\* flushed, an Err goes to handle_error, the loop goes on.
WorkerFlushStep(w) ==
    LET l == workers[w].logger
    IN  /\ workers[w].state = "flush_sinks"
        /\ workers[w].idx <= Len(sinks[l])
        /\ workers' = [workers EXCEPT ![w].idx = @ + 1, ![w].nflush = @ + 1]
        /\ UNCHANGED <<loggerVars, threadVars, now, stdVars, basic_logger, pattern_pass>>

\* What dropping the last strong reference does: the logger is destroyed and
\* with it the worker it owns, which is told to stop.
DestroyedAlive(l) == [alive EXCEPT ![l] = "dropped"]

\* The callback returns true and drops the Arc it held; if that was the last
\* one the logger is destroyed here, on the worker's thread.
WorkerCallbackEnd(w) ==
    LET l == workers[w].logger
        last == owners[l] = 0
    IN  /\ workers[w].state = "flush_sinks"
        /\ workers[w].idx > Len(sinks[l])
        /\ workers' = [v \in WorkerIds |->
                         IF v = w
                           THEN [workers[w] EXCEPT
                                    !.state = "sleeping", !.strong = FALSE,
                                    !.idx = 0, !.passes = @ + 1,
                                    !.wake = now + workers[w].interval,
                                    !.stop = @ \/ (last /\ periodic_flusher[l] = w)]
                         ELSE IF last /\ periodic_flusher[l] = v
                           THEN [workers[v] EXCEPT !.stop = TRUE]
                         ELSE workers[v]]
        /\ alive' = IF last THEN DestroyedAlive(l) ELSE alive
        /\ periodic_flusher' = IF last THEN [periodic_flusher EXCEPT ![l] = 0]
                               ELSE periodic_flusher
        /\ UNCHANGED <<owners, level_filter, sinks, flush_level_filter,
                       pf_guard, pf_poisoned, error_handler>>
        /\ UNCHANGED <<threadVars, now, stdVars, basic_logger, pattern_pass>>

\* The last owner drops its Arc<Logger>.  The logger is destroyed unless a
\* worker's callback holds a strong reference.
DropOwner(l) ==
    /\ Usable(l)
    /\ ~Busy(l)
    /\ owners' = [owners EXCEPT ![l] = 0]
    /\ IF HoldsStrong(l)
         THEN UNCHANGED <<alive, periodic_flusher, workers>>
         ELSE /\ alive' = DestroyedAlive(l)
              /\ periodic_flusher' = [periodic_flusher EXCEPT ![l] = 0]
              /\ workers' = [w \in WorkerIds |->
                               IF periodic_flusher[l] = w
                                 THEN [workers[w] EXCEPT !.stop = TRUE]
                                 ELSE workers[w]]
    /\ UNCHANGED <<level_filter, sinks, flush_level_filter, pf_guard,
                   pf_poisoned, error_handler>>
    /\ UNCHANGED <<threadVars, now, stdVars, basic_logger, pattern_pass>>

\* Time passes: no worker whose sleep is over waits, and a flush pass takes
\* no time.
Tick ==
    /\ now < MaxTime
    /\ \A w \in WorkerIds :
          /\ workers[w].state # "flush_sinks"
          /\ (workers[w].state = "sleeping" /\ ~workers[w].stop) => now < workers[w].wake
    /\ now' = now + 1
    /\ UNCHANGED <<loggerVars, threadVars, workers, stdVars, basic_logger, pattern_pass>>

NextPeriodic ==
    \/ \E t \in Threads, i \in IntervalInputs : SfpLock(t, "main", i)
    \/ \E t \in Threads : SfpDropOld(t)
    \/ \E t \in Threads : SfpJoin(t)
    \/ \E t \in Threads : SfpNew(t)
    \/ \E t \in Threads : Return(t)
    \/ \E w \in WorkerIds : WorkerWake(w)
    \/ \E w \in WorkerIds : WorkerStop(w)
    \/ \E w \in WorkerIds : WorkerFlushStep(w)
    \/ \E w \in WorkerIds : WorkerCallbackEnd(w)
    \/ DropOwner("main")
    \/ Tick

SpecPeriodic == InitArc /\ [][NextPeriodic]_vars

(***************************************************************************)
(* impl Clone for Logger: "main" is duplicated into "dup".                 *)
(***************************************************************************)
\* Mutant: the check for a flush period is missing.
CloneCheck_NoCheck(t, src) ==
    /\ pc[t] = "idle"
    /\ Usable(src)
    /\ alive["dup"] = "none"
    /\ \A u \in Threads : call[u].op # "clone"
    /\ pf_guard[src] = "-"
    /\ pc' = [pc EXCEPT ![t] = "clone_level_filter"]
    /\ call' = [call EXCEPT ![t] = [NoCall EXCEPT !.op = "clone", !.logger = src]]
    /\ trace' = [trace EXCEPT ![t] = <<>>]
    /\ UNCHANGED <<loggerVars, workerVars, stdVars, basic_logger, pattern_pass>>

\* Clone::clone: if self.periodic_flusher.lock().unwrap().is_some() { panic!() }
\* The guard is a temporary of the condition and is released before the body.
CloneCheck(t, src) ==
    /\ pc[t] = "idle"
    /\ Usable(src)
    /\ alive["dup"] = "none"
    /\ \A u \in Threads : call[u].op # "clone"
    /\ pf_guard[src] = "-"
    /\ IF pf_poisoned[src] \/ periodic_flusher[src] # 0
         THEN /\ pc' = [pc EXCEPT ![t] = "done"]
              /\ call' = [call EXCEPT ![t] = [NoCall EXCEPT !.op = "clone",
                                                 !.logger = src, !.panic = TRUE]]
         ELSE /\ pc' = [pc EXCEPT ![t] = "clone_level_filter"]
              /\ call' = [call EXCEPT ![t] = [NoCall EXCEPT !.op = "clone",
                                                 !.logger = src]]
    /\ trace' = [trace EXCEPT ![t] = <<>>]
    /\ UNCHANGED <<loggerVars, workerVars, stdVars, basic_logger, pattern_pass>>

\* Clone::clone: level_filter: Atomic::new(self.level_filter())
CloneLevelFilter(t) ==
    /\ pc[t] = "clone_level_filter"
    /\ pc' = [pc EXCEPT ![t] = "clone_flush_level_filter"]
    /\ call' = [call EXCEPT ![t].lf = level_filter[call[t].logger]]
    /\ UNCHANGED <<trace, loggerVars, workerVars, stdVars, basic_logger, pattern_pass>>

\* Clone::clone: flush_level_filter: Atomic::new(self.flush_level_filter())
CloneFlushLevelFilter(t) ==
    /\ pc[t] = "clone_flush_level_filter"
    /\ pc' = [pc EXCEPT ![t] = "clone_build"]
    /\ call' = [call EXCEPT ![t].ff = flush_level_filter[call[t].logger]]
    /\ UNCHANGED <<trace, loggerVars, workerVars, stdVars, basic_logger, pattern_pass>>

\* Clone::clone: the last fields of the struct literal; the new Logger is
\* returned and the caller owns it.
CloneBuild(t) ==
    LET new == CloneFields(call[t].logger, call[t].lf, call[t].ff)
    IN  /\ pc[t] = "clone_build"
        /\ pc' = [pc EXCEPT ![t] = "done"]
        /\ alive' = [alive EXCEPT !["dup"] = "alive"]
        /\ owners' = [owners EXCEPT !["dup"] = 1]
        /\ level_filter' = [level_filter EXCEPT !["dup"] = new.level_filter]
        /\ sinks' = [sinks EXCEPT !["dup"] = new.sinks]
        /\ flush_level_filter' = [flush_level_filter EXCEPT
                                     !["dup"] = new.flush_level_filter]
        /\ periodic_flusher' = [periodic_flusher EXCEPT !["dup"] = new.periodic_flusher]
        /\ error_handler' = [error_handler EXCEPT !["dup"] = new.error_handler]
        /\ UNCHANGED <<pf_guard, pf_poisoned>>
        /\ UNCHANGED <<call, trace, workerVars, stdVars, basic_logger, pattern_pass>>

\* The flush periods and filters of the duplication runs.
CloneIntervalInputs == {None, Some(0), Some(MaxInterval)}

CloneFilterInputs == {Off, MoreSevereEqual("Warn")}

NextClone ==
    \/ \E t \in Threads : CloneCheck(t, "main")
    \/ \E t \in Threads : CloneLevelFilter(t)
    \/ \E t \in Threads : CloneFlushLevelFilter(t)
    \/ \E t \in Threads : CloneBuild(t)
    \/ \E t \in Threads, l \in {"main", "dup"}, i \in CloneIntervalInputs :
          SfpLock(t, l, i)
    \/ \E t \in Threads : SfpDropOld(t)
    \/ \E t \in Threads : SfpJoin(t)
    \/ \E t \in Threads : SfpNew(t)
    \/ \E t \in Threads : Return(t)
    \/ \E w \in WorkerIds : WorkerStop(w)
    \/ \E l \in {"main", "dup"}, f \in CloneFilterInputs : SetLevelFilter(l, f)
    \/ \E l \in {"main", "dup"}, f \in CloneFilterInputs : SetFlushLevelFilter(l, f)

SpecClone == InitArc /\ [][NextClone]_vars

(***************************************************************************)
(* Clone::clone and the error handler: the source's handler is replaced,   *)
(* the logger is duplicated, and both loggers dispatch records.            *)
(***************************************************************************)
\* The handlers given to set_error_handler on the duplicate.
DupHandlerInputs == {"h2"}

NextHandler ==
    \/ \E t \in Threads \ Dispatchers : CloneCheck(t, "main")
    \/ \E t \in Threads : CloneLevelFilter(t)
    \/ \E t \in Threads : CloneFlushLevelFilter(t)
    \/ \E t \in Threads : CloneBuild(t)
    \/ \E t \in Dispatchers, l \in {"main", "dup"}, level \in LevelInputs :
          Log(t, l, level)
    \/ \E t \in Dispatchers : SinkRecordStep(t)
    \/ \E t \in Dispatchers : SinkRecordFlush(t)
    \/ \E t \in Dispatchers : HandleError(t)
    \/ \E t \in Threads : Return(t)
    \/ \E h \in HandlerInputs \cup {"none"} : SetErrorHandler("main", h)
    \/ \E h \in DupHandlerInputs \cup {"none"} : SetErrorHandler("dup", h)

SpecHandler == InitArc /\ [][NextHandler]_vars

(***************************************************************************)
(* StdStreamSink (src/spdlog/src/sink/std_stream_sink.rs): one sink on     *)
(* stdout or stderr, the threads that call log and flush on it, and what   *)
(* the destination receives.                                               *)
(***************************************************************************)
\* The bytes: the i-th byte of a formatted record, and the bytes of the
\* start code of a level and of the end code.
Text(i) == [kind |-> "text", v |-> i]

StringBufOf(n) == [i \in 1..n |-> Text(i)]

\* LevelStyleCodes::code
LevelStyleCode(level) ==
    [start |-> <<[kind |-> "start", v |-> Rank(level)]>>,
     end |-> <<[kind |-> "end", v |-> 0]>>]

\* What Formatter::format gives back: an error, or the buffer filled and the
\* style range, a sub-range of the buffer, if the formatter has one.
FormatErr == [ok |-> FALSE, string_buf |-> <<>>, style_range |-> NoRange]

FormatOk(n, r) == [ok |-> TRUE, string_buf |-> StringBufOf(n), style_range |-> r]

RangesOf(n) ==
    {NoRange} \cup {r \in {SomeRange(a, b) : a \in 0..n, b \in 0..n} :
                       r.start <= r.end}

\* An error after n bytes went into the buffer.
FormatErrAfter(n) == [FormatErr EXCEPT !.string_buf = StringBufOf(n)]

FormatResults ==
    {FormatErrAfter(n) : n \in 0..MaxBuf}
        \cup UNION {{FormatOk(n, r) : r \in RangesOf(n)} : n \in 0..MaxBuf}

\* The sink's level filters, the formatters and the threads of the runs.
StdFilterInputs == {All, MoreSevereEqual("Warn")}

FormatterInputs == {"f1", "f2"}

StdCallers == {"t1"}

\* enable_ansi_escape_sequences
enable_ansi_escape_sequences == terminal.ansi

\* Mutant: Auto looks at the terminal only.
should_render_style_NoProbe(style_mode, stream) ==
    LET is_terminal == terminal.is_terminal[stream]
    IN  CASE style_mode = "Always" -> TRUE
          [] style_mode = "Auto" -> is_terminal
          [] style_mode = "Never" -> FALSE

\* StdStreamSink::should_render_style
should_render_style(style_mode, stream) ==
    LET is_terminal == terminal.is_terminal[stream]
    IN  CASE style_mode = "Always" -> TRUE
          [] style_mode = "Auto" -> is_terminal /\ enable_ansi_escape_sequences
          [] style_mode = "Never" -> FALSE

\* StdStreamSinkBuilder::build
StdStreamSinkBuild(std_stream, style_mode, filter) ==
    [dest |-> std_stream,
     style_mode |-> style_mode,
     should_render_style |-> should_render_style(style_mode, std_stream),
     level_filter |-> filter,
     formatter |-> "f1"]

StdIdle ==
    /\ dest_lock = "-"
    /\ formatter_lock = {}
    /\ std_pc = [t \in Threads |-> "idle"]
    /\ std_call = [t \in Threads |-> NoStdCall]
    /\ dest_ops = <<>>
    /\ checked = NoCheck

\* A sink built for either stream, with any style mode and level filter, in
\* a process whose streams are terminals or not.
InitStd ==
    /\ InitBuilder
    /\ terminal \in [is_terminal : [StdStream -> BOOLEAN], ansi : BOOLEAN]
    /\ \E std_stream \in StdStream, style_mode \in StyleMode,
          filter \in StdFilterInputs :
          std_sink = StdStreamSinkBuild(std_stream, style_mode, filter)
    /\ StdIdle

\* Sink::should_log of the sink
std_should_log(level) == Compare(std_sink.level_filter, level)

\* string_buf[a..b]
Slice(string_buf, a, b) == SubSeq(string_buf, a + 1, b)

\* Mutant: the bytes after the style range start one byte late.
WriteAlls_TailOffByOne(level, string_buf, style_range) ==
    IF std_sink.should_render_style /\ style_range.some
        THEN <<Slice(string_buf, 0, style_range.start),
               LevelStyleCode(level).start,
               Slice(string_buf, style_range.start, style_range.end),
               LevelStyleCode(level).end,
               Slice(string_buf, style_range.end + 1, Len(string_buf))>>
        ELSE <<string_buf>>

\* The write_all calls of the closure in StdStreamSink::log, in order.
WriteAlls(level, string_buf, style_range) ==
    IF std_sink.should_render_style /\ style_range.some
        THEN <<Slice(string_buf, 0, style_range.start),
               LevelStyleCode(level).start,
               Slice(string_buf, style_range.start, style_range.end),
               LevelStyleCode(level).end,
               Slice(string_buf, style_range.end, Len(string_buf))>>
        ELSE <<string_buf>>

DestOp(t, op, bytes, ok) == [by |-> t, op |-> op, bytes |-> bytes, ok |-> ok]

\* What the destination received from the calls of the other threads.
OthersOps(t) == SelectSeq(dest_ops, LAMBDA e : e.by # t)

\* Mutant: a record the sink's filter rejects is formatted and written.
StdLog_NoFilter(t, level) ==
    /\ std_pc[t] = "idle"
    /\ std_pc' = [std_pc EXCEPT ![t] = "format"]
    /\ std_call' = [std_call EXCEPT ![t] =
                       [NoStdCall EXCEPT !.op = "log", !.level = level]]
    /\ dest_ops' = OthersOps(t)
    /\ UNCHANGED <<std_sink, terminal, dest_lock, formatter_lock, checked>>
    /\ UNCHANGED <<loggerVars, threadVars, workerVars, basic_logger, pattern_pass>>

\* StdStreamSink::log: if !self.should_log(record.level()) { return Ok(()) }
StdLog(t, level) ==
    /\ std_pc[t] = "idle"
    /\ IF ~std_should_log(level)
         THEN /\ std_pc' = [std_pc EXCEPT ![t] = "done"]
              /\ std_call' = [std_call EXCEPT ![t] =
                                 [NoStdCall EXCEPT !.op = "log", !.level = level,
                                                   !.result = "Ok"]]
         ELSE /\ std_pc' = [std_pc EXCEPT ![t] = "format"]
              /\ std_call' = [std_call EXCEPT ![t] =
                                 [NoStdCall EXCEPT !.op = "log", !.level = level]]
    /\ dest_ops' = OthersOps(t)
    /\ UNCHANGED <<std_sink, terminal, dest_lock, formatter_lock, checked>>
    /\ UNCHANGED <<loggerVars, threadVars, workerVars, basic_logger, pattern_pass>>

\* self.common_impl.formatter.read()
StdFormatterRead(t) ==
    /\ std_pc[t] = "format"
    /\ std_pc' = [std_pc EXCEPT ![t] = "formatting"]
    /\ formatter_lock' = formatter_lock \cup {t}
    /\ UNCHANGED <<std_sink, terminal, dest_lock, std_call, dest_ops, checked>>
    /\ UNCHANGED <<loggerVars, threadVars, workerVars, basic_logger, pattern_pass>>

\* Mutant: on an error of the formatter what the buffer holds is written out
\* before the error is returned.
StdFormat_EmitPartial(t, r) ==
    /\ std_pc[t] = "formatting"
    /\ formatter_lock' = formatter_lock \ {t}
    /\ IF r.ok
         THEN /\ std_pc' = [std_pc EXCEPT ![t] = "lock"]
              /\ std_call' = [std_call EXCEPT ![t].string_buf = r.string_buf,
                                              ![t].style_range = r.style_range]
              /\ dest_ops' = dest_ops
         ELSE /\ std_pc' = [std_pc EXCEPT ![t] = "done"]
              /\ std_call' = [std_call EXCEPT ![t].string_buf = r.string_buf,
                                              ![t].result = "FormatRecord"]
              /\ dest_ops' = Append(dest_ops, DestOp(t, "write", r.string_buf, TRUE))
    /\ UNCHANGED <<std_sink, terminal, dest_lock, checked>>
    /\ UNCHANGED <<loggerVars, threadVars, workerVars, basic_logger, pattern_pass>>

\* .format(record, &mut string_buf)?  and the read guard is dropped at the
\* end of the statement.  On Err the ? returns it; string_buf, with what the
\* formatter put into it, is a local of the call and goes with it.
StdFormat(t, r) ==
    /\ std_pc[t] = "formatting"
    /\ formatter_lock' = formatter_lock \ {t}
    /\ IF r.ok
         THEN /\ std_pc' = [std_pc EXCEPT ![t] = "lock"]
              /\ std_call' = [std_call EXCEPT ![t].string_buf = r.string_buf,
                                              ![t].style_range = r.style_range]
         ELSE /\ std_pc' = [std_pc EXCEPT ![t] = "done"]
              /\ std_call' = [std_call EXCEPT ![t].string_buf = r.string_buf,
                                              ![t].result = "FormatRecord"]
    /\ UNCHANGED <<std_sink, terminal, dest_lock, dest_ops, checked>>
    /\ UNCHANGED <<loggerVars, threadVars, workerVars, basic_logger, pattern_pass>>

\* Mutant: the destination is written without its lock.
StdDestLock_NoLock(t) ==
    /\ std_pc[t] = "lock"
    /\ std_pc' = [std_pc EXCEPT ![t] = "write"]
    /\ UNCHANGED <<std_sink, terminal, dest_lock, formatter_lock, std_call,
                   dest_ops, checked>>
    /\ UNCHANGED <<loggerVars, threadVars, workerVars, basic_logger, pattern_pass>>

\* let mut dest = self.dest.lock();
StdDestLock(t) ==
    /\ std_pc[t] = "lock"
    /\ dest_lock = "-"
    /\ dest_lock' = t
    /\ std_pc' = [std_pc EXCEPT ![t] = "write"]
    /\ UNCHANGED <<std_sink, terminal, formatter_lock, std_call, dest_ops, checked>>
    /\ UNCHANGED <<loggerVars, threadVars, workerVars, basic_logger, pattern_pass>>

\* Mutant: a failed write_all is skipped and the next one is made.
StdWrite_GoOn(t, ok) ==
    LET c == std_call[t]
        plan == WriteAlls(c.level, c.string_buf, c.style_range)
        i == c.written + 1
    IN  /\ std_pc[t] = "write"
        /\ dest_ops' = Append(dest_ops, DestOp(t, "write", plan[i], ok))
        /\ std_call' = [std_call EXCEPT ![t].written = i]
        /\ std_pc' = [std_pc EXCEPT ![t] = IF i = Len(plan) THEN "after_write"
                                                            ELSE "write"]
        /\ UNCHANGED <<std_sink, terminal, dest_lock, formatter_lock, checked>>
        /\ UNCHANGED <<loggerVars, threadVars, workerVars, basic_logger, pattern_pass>>

\* One dest.write_all(..)? of the closure; an Err leaves the closure, becomes
\* Error::WriteRecord and is returned, which drops the lock.
StdWrite(t, ok) ==
    LET c == std_call[t]
        plan == WriteAlls(c.level, c.string_buf, c.style_range)
        i == c.written + 1
    IN  /\ std_pc[t] = "write"
        /\ dest_ops' = Append(dest_ops, DestOp(t, "write", plan[i], ok))
        /\ IF ok
             THEN /\ std_call' = [std_call EXCEPT ![t].written = i]
                  /\ std_pc' = [std_pc EXCEPT ![t] =
                                   IF i = Len(plan) THEN "after_write" ELSE "write"]
                  /\ UNCHANGED dest_lock
             ELSE /\ std_call' = [std_call EXCEPT ![t].result = "WriteRecord"]
                  /\ std_pc' = [std_pc EXCEPT ![t] = "done"]
                  /\ dest_lock' = IF dest_lock = t THEN "-" ELSE dest_lock
        /\ UNCHANGED <<std_sink, terminal, formatter_lock, checked>>
        /\ UNCHANGED <<loggerVars, threadVars, workerVars, basic_logger, pattern_pass>>

\* Mutant: the destination is flushed after the writes whatever it is.
StdAfterWrite_AlwaysFlush(t, ok) ==
    /\ std_pc[t] = "after_write"
    /\ dest_ops' = Append(dest_ops, DestOp(t, "flush", <<>>, ok))
    /\ std_call' = [std_call EXCEPT ![t].result = IF ok THEN "Ok" ELSE "FlushBuffer"]
    /\ std_pc' = [std_pc EXCEPT ![t] = "done"]
    /\ dest_lock' = IF dest_lock = t THEN "-" ELSE dest_lock
    /\ UNCHANGED <<std_sink, terminal, formatter_lock, checked>>
    /\ UNCHANGED <<loggerVars, threadVars, workerVars, basic_logger, pattern_pass>>

\* if let StdStreamDest::Stdout(_) = dest { dest.flush().map_err(..)? }
\* Ok(()), and the lock is dropped.
StdAfterWrite(t, ok) ==
    /\ std_pc[t] = "after_write"
    /\ IF std_sink.dest = "Stdout"
         THEN /\ dest_ops' = Append(dest_ops, DestOp(t, "flush", <<>>, ok))
              /\ std_call' = [std_call EXCEPT ![t].result =
                                 IF ok THEN "Ok" ELSE "FlushBuffer"]
         ELSE /\ ok
              /\ dest_ops' = dest_ops
              /\ std_call' = [std_call EXCEPT ![t].result = "Ok"]
    /\ std_pc' = [std_pc EXCEPT ![t] = "done"]
    /\ dest_lock' = IF dest_lock = t THEN "-" ELSE dest_lock
    /\ UNCHANGED <<std_sink, terminal, formatter_lock, checked>>
    /\ UNCHANGED <<loggerVars, threadVars, workerVars, basic_logger, pattern_pass>>

\* StdStreamSink::flush is called.
StdFlush(t) ==
    /\ std_pc[t] = "idle"
    /\ std_pc' = [std_pc EXCEPT ![t] = "flush"]
    /\ std_call' = [std_call EXCEPT ![t] = [NoStdCall EXCEPT !.op = "flush"]]
    /\ dest_ops' = OthersOps(t)
    /\ UNCHANGED <<std_sink, terminal, dest_lock, formatter_lock, checked>>
    /\ UNCHANGED <<loggerVars, threadVars, workerVars, basic_logger, pattern_pass>>

\* self.dest.lock().flush().map_err(|err| Error::FlushBuffer(err.into()))
StdFlushDest(t, ok) ==
    /\ std_pc[t] = "flush"
    /\ dest_lock = "-"
    /\ dest_ops' = Append(dest_ops, DestOp(t, "flush", <<>>, ok))
    /\ std_call' = [std_call EXCEPT ![t].result = IF ok THEN "Ok" ELSE "FlushBuffer"]
    /\ std_pc' = [std_pc EXCEPT ![t] = "done"]
    /\ UNCHANGED <<std_sink, terminal, dest_lock, formatter_lock, checked>>
    /\ UNCHANGED <<loggerVars, threadVars, workerVars, basic_logger, pattern_pass>>

\* The call returns to its caller.
StdReturn(t) ==
    /\ std_pc[t] = "done"
    /\ std_pc' = [std_pc EXCEPT ![t] = "idle"]
    /\ UNCHANGED <<std_sink, terminal, dest_lock, formatter_lock, std_call,
                   dest_ops, checked>>
    /\ UNCHANGED <<loggerVars, threadVars, workerVars, basic_logger, pattern_pass>>

\* StdStreamSink::set_style_mode (&mut self: no call runs beside it)
set_style_mode(style_mode) ==
    /\ \A t \in Threads : std_pc[t] = "idle"
    /\ std_sink' = [std_sink EXCEPT
                       !.style_mode = style_mode,
                       !.should_render_style =
                           should_render_style(style_mode, std_sink.dest)]
    /\ UNCHANGED <<terminal, dest_lock, formatter_lock, std_pc, std_call,
                   dest_ops, checked>>
    /\ UNCHANGED <<loggerVars, threadVars, workerVars, basic_logger, pattern_pass>>

\* Sink::set_formatter: the write lock of the formatter, then the new one.
set_formatter(f) ==
    /\ formatter_lock = {}
    /\ f # std_sink.formatter
    /\ std_sink' = [std_sink EXCEPT !.formatter = f]
    /\ UNCHANGED <<terminal, dest_lock, formatter_lock, std_pc, std_call,
                   dest_ops, checked>>
    /\ UNCHANGED <<loggerVars, threadVars, workerVars, basic_logger, pattern_pass>>

NextStd ==
    \/ \E t \in StdCallers, level \in LevelInputs : StdLog(t, level)
    \/ \E t \in StdCallers : StdFormatterRead(t)
    \/ \E t \in StdCallers, r \in FormatResults : StdFormat(t, r)
    \/ \E t \in StdCallers : StdDestLock(t)
    \/ \E t \in StdCallers, ok \in BOOLEAN : StdWrite(t, ok)
    \/ \E t \in StdCallers, ok \in BOOLEAN : StdAfterWrite(t, ok)
    \/ \E t \in StdCallers : StdFlush(t)
    \/ \E t \in StdCallers, ok \in BOOLEAN : StdFlushDest(t, ok)
    \/ \E t \in StdCallers : StdReturn(t)
    \/ \E style_mode \in StyleMode : set_style_mode(style_mode)
    \/ \E f \in FormatterInputs : set_formatter(f)

SpecStd == InitStd /\ [][NextStd]_vars

\* Two threads on one sink that styles its records: every write and flush
\* succeeds, the records have a style range or none.
ConcFormatResults == {FormatOk(1, NoRange), FormatOk(MaxBuf, SomeRange(1, MaxBuf))}

InitStdConc ==
    /\ InitBuilder
    /\ terminal = [is_terminal |-> [s \in StdStream |-> FALSE], ansi |-> TRUE]
    /\ \E std_stream \in StdStream :
          std_sink = StdStreamSinkBuild(std_stream, "Always", All)
    /\ StdIdle

NextStdConc ==
    \/ \E t \in Threads : StdLog(t, "Warn")
    \/ \E t \in Threads : StdFormatterRead(t)
    \/ \E t \in Threads, r \in ConcFormatResults : StdFormat(t, r)
    \/ \E t \in Threads : StdDestLock(t)
    \/ \E t \in Threads : StdWrite(t, TRUE)
    \/ \E t \in Threads : StdAfterWrite(t, TRUE)
    \/ \E t \in Threads : StdFlush(t)
    \/ \E t \in Threads : StdFlushDest(t, TRUE)
    \/ \E t \in Threads : StdReturn(t)
    \/ \E f \in FormatterInputs : set_formatter(f)

SpecStdConc == InitStdConc /\ [][NextStdConc]_vars

(***************************************************************************)
(* The level checks: Logger::should_log, the default Sink::enabled and     *)
(* BasicLogger::enabled, applied to every filter and level.                *)
(***************************************************************************)
\* The filters of the checks: Off, and "L and more severe" for every L.
LevelFilters == {Off} \cup {MoreSevereEqual(Levels[i]) : i \in 1..Len(Levels)}

\* Level and LevelFilter as numbers, as the comparison takes them: the most
\* severe level is the smallest, Off is below every level.
LevelOrd(level) == Rank(level)

FilterOrd(filter) == IF filter.kind = "Off" THEN 0 ELSE Rank(filter.level)

\* Mutant: the level of the filter itself is rejected.
enabled_Strict(filter, level) == LevelOrd(level) < FilterOrd(filter)

\* Sink::enabled: metadata.level() <= self.level()
enabled(filter, level) == LevelOrd(level) <= FilterOrd(filter)

\* BasicLogger::enabled: metadata.level() <= self.level
basic_logger_enabled(filter, level) == LevelOrd(level) <= FilterOrd(filter)

\* Logger::should_log of a logger whose level filter is the given one.
CheckShouldLog(filter, level) ==
    /\ checked' = [by |-> "Logger::should_log", filter |-> filter, level |-> level,
                   result |-> Compare(filter, level)]
    /\ UNCHANGED <<std_sink, terminal, dest_lock, formatter_lock, std_pc,
                   std_call, dest_ops>>
    /\ UNCHANGED <<loggerVars, threadVars, workerVars, basic_logger, pattern_pass>>

CheckSinkEnabled(filter, level) ==
    /\ checked' = [by |-> "Sink::enabled", filter |-> filter, level |-> level,
                   result |-> enabled(filter, level)]
    /\ UNCHANGED <<std_sink, terminal, dest_lock, formatter_lock, std_pc,
                   std_call, dest_ops>>
    /\ UNCHANGED <<loggerVars, threadVars, workerVars, basic_logger, pattern_pass>>

CheckBasicLoggerEnabled(filter, level) ==
    /\ checked' = [by |-> "BasicLogger::enabled", filter |-> filter, level |-> level,
                   result |-> basic_logger_enabled(filter, level)]
    /\ UNCHANGED <<std_sink, terminal, dest_lock, formatter_lock, std_pc,
                   std_call, dest_ops>>
    /\ UNCHANGED <<loggerVars, threadVars, workerVars, basic_logger, pattern_pass>>

NextLevel ==
    \/ \E filter \in LevelFilters, level \in Range(Levels) :
          CheckShouldLog(filter, level)
    \/ \E filter \in LevelFilters, level \in Range(Levels) :
          CheckSinkEnabled(filter, level)
    \/ \E filter \in LevelFilters, level \in Range(Levels) :
          CheckBasicLoggerEnabled(filter, level)

SpecLevel == Init /\ [][NextLevel]_vars

(***************************************************************************)
(* BasicLogger (src/src/logger/basic_logger.rs).  The setters take         *)
(* &mut self, so they run while no call is in progress.                    *)
(***************************************************************************)
\* The level filters of BasicLogger's sinks: odd sinks take every level,
\* even sinks take Warn and more severe.
BasicSinkLevel(s) == IF s % 2 = 1 THEN MoreSevereEqual("Trace")
                                  ELSE MoreSevereEqual("Warn")

BasicIdle == \A t \in Threads : pc[t] = "idle"

\* BasicLogger::sinks_mut().push(sink)
BasicSinksPush(s) ==
    /\ BasicIdle
    /\ s \notin Range(basic_logger.sinks)
    /\ basic_logger' = [basic_logger EXCEPT !.sinks = Append(@, s)]
    /\ UNCHANGED <<loggerVars, threadVars, workerVars, stdVars, pattern_pass>>

\* BasicLogger::set_level
BasicSetLevel(filter) ==
    /\ BasicIdle
    /\ basic_logger' = [basic_logger EXCEPT !.level = filter]
    /\ UNCHANGED <<loggerVars, threadVars, workerVars, stdVars, pattern_pass>>

\* BasicLogger::set_error_handler: self.error_handler.lock().unwrap().replace(handler)
BasicSetErrorHandler(h) ==
    /\ BasicIdle
    /\ basic_logger' = [basic_logger EXCEPT !.error_handler = h]
    /\ UNCHANGED <<loggerVars, threadVars, workerVars, stdVars, pattern_pass>>

\* BasicLogger::log: if !self.enabled(record.metadata()) { return }
BasicLog(t, level) ==
    /\ pc[t] = "idle"
    /\ IF ~basic_logger_enabled(basic_logger.level, level)
         THEN pc' = [pc EXCEPT ![t] = "done"]
         ELSE pc' = [pc EXCEPT ![t] = "basic_sink_record"]
    /\ call' = [call EXCEPT ![t] = [NoCall EXCEPT !.op = "log", !.logger = "basic",
                                       !.level = level, !.idx = 1,
                                       !.lf = basic_logger.level]]
    /\ trace' = [trace EXCEPT ![t] = <<>>]
    /\ UNCHANGED <<loggerVars, workerVars, stdVars, basic_logger, pattern_pass>>

\* Mutant: without a handler the error goes to a default handler.
BasicSinkRecordStep_DefaultHandler(t) ==
    LET c == call[t]
        s == basic_logger.sinks[c.idx]
        h == IF basic_logger.error_handler = "none" THEN "default"
             ELSE basic_logger.error_handler
    IN  /\ pc[t] = "basic_sink_record"
        /\ c.idx <= Len(basic_logger.sinks)
        /\ IF enabled(BasicSinkLevel(s), c.level)
             THEN \E res \in {"Ok", "Err"} :
                    trace' = [trace EXCEPT ![t] =
                                 IF res = "Err"
                                     THEN @ \o <<Event("log", s, res),
                                                 Event("handle", s, h)>>
                                     ELSE Append(@, Event("log", s, res))]
             ELSE trace' = trace
        /\ call' = [call EXCEPT ![t].idx = @ + 1]
        /\ UNCHANGED <<pc, loggerVars, workerVars, stdVars, basic_logger, pattern_pass>>

\* BasicLogger::sink_record, one turn of for_each: if sink.enabled(metadata)
\* the sink logs, and an Err goes to the handler if there is one.
BasicSinkRecordStep(t) ==
    LET c == call[t]
        s == basic_logger.sinks[c.idx]
    IN  /\ pc[t] = "basic_sink_record"
        /\ c.idx <= Len(basic_logger.sinks)
        /\ IF enabled(BasicSinkLevel(s), c.level)
             THEN \E res \in {"Ok", "Err"} :
                    trace' = [trace EXCEPT ![t] =
                                 IF res = "Err" /\ basic_logger.error_handler # "none"
                                     THEN @ \o <<Event("log", s, res),
                                                 Event("handle", s,
                                                       basic_logger.error_handler)>>
                                     ELSE Append(@, Event("log", s, res))]
             ELSE trace' = trace
        /\ call' = [call EXCEPT ![t].idx = @ + 1]
        /\ UNCHANGED <<pc, loggerVars, workerVars, stdVars, basic_logger, pattern_pass>>

\* BasicLogger::sink_record: the for_each is over, log returns.
BasicSinkRecordEnd(t) ==
    /\ pc[t] = "basic_sink_record"
    /\ call[t].idx > Len(basic_logger.sinks)
    /\ pc' = [pc EXCEPT ![t] = "done"]
    /\ UNCHANGED <<call, trace, loggerVars, workerVars, stdVars, basic_logger, pattern_pass>>

\* BasicLogger::flush: fn flush(&self) {}
BasicFlush(t) ==
    /\ pc[t] = "idle"
    /\ pc' = [pc EXCEPT ![t] = "done"]
    /\ call' = [call EXCEPT ![t] = [NoCall EXCEPT !.op = "flush", !.logger = "basic"]]
    /\ trace' = [trace EXCEPT ![t] = <<>>]
    /\ UNCHANGED <<loggerVars, workerVars, stdVars, basic_logger, pattern_pass>>

NextBasic ==
    \/ \E s \in SinkIds : BasicSinksPush(s)
    \/ \E f \in FilterInputs : BasicSetLevel(f)
    \/ \E h \in HandlerInputs : BasicSetErrorHandler(h)
    \/ \E t \in Dispatchers, level \in LevelInputs : BasicLog(t, level)
    \/ \E t \in Dispatchers : BasicSinkRecordStep(t)
    \/ \E t \in Dispatchers : BasicSinkRecordEnd(t)
    \/ \E t \in Dispatchers : BasicFlush(t)
    \/ \E t \in Dispatchers : Return(t)

SpecBasic == Init /\ [][NextBasic]_vars

(***************************************************************************)
(* The Full pattern (src/spdlog/src/formatter/pattern_formatter/pattern/   *)
(* full.rs) in a pass of a pattern formatter: the patterns of the pass run *)
(* one after the other on one buffer and one PatternContext.               *)
(***************************************************************************)
LiteralByte == [kind |-> "literal", v |-> 0]

LevelByte == [kind |-> "level", v |-> 0]

PassRuns == pattern_pass.result = "Ok" /\ Len(pattern_pass.patterns) < MaxPatterns

\* A new pass starts, for the next record.
PassNew ==
    /\ pattern_pass # NewPass
    /\ pattern_pass' = NewPass
    /\ UNCHANGED <<loggerVars, threadVars, workerVars, stdVars, basic_logger>>

\* A literal pattern of the pass: it appends its text.
PatternLiteral ==
    /\ PassRuns
    /\ pattern_pass' = [pattern_pass EXCEPT !.dest = Append(@, LiteralByte),
                                            !.patterns = Append(@, "literal")]
    /\ UNCHANGED <<loggerVars, threadVars, workerVars, stdVars, basic_logger>>

\* A level pattern that styles: it appends the level and records where it
\* is in the buffer as the style range of the context.
PatternLevel ==
    /\ PassRuns
    /\ pattern_pass' = [pattern_pass EXCEPT
                           !.dest = Append(@, LevelByte),
                           !.style_range = SomeRange(Len(pattern_pass.dest),
                                                     Len(pattern_pass.dest) + 1),
                           !.patterns = Append(@, "level")]
    /\ UNCHANGED <<loggerVars, threadVars, workerVars, stdVars, basic_logger>>

\* Mutant: the style range FullFormatter reports is recorded in the context.
FullFormat_KeepsRange(r) ==
    /\ PassRuns
    /\ pattern_pass' = [pattern_pass EXCEPT
                           !.dest = @ \o r.string_buf,
                           !.style_range =
                               IF r.style_range.some
                                   THEN SomeRange(Len(pattern_pass.dest) + r.style_range.start,
                                                  Len(pattern_pass.dest) + r.style_range.end)
                                   ELSE @,
                           !.patterns = Append(@, "full"),
                           !.result = IF r.ok THEN "Ok" ELSE "Err",
                           !.full = r]
    /\ UNCHANGED <<loggerVars, threadVars, workerVars, stdVars, basic_logger>>

\* Full::format: self.full_formatter.format(record, dest)?; Ok(())
\* r is what FullFormatter::format returns, its text goes to the end of dest.
FullFormat(r) ==
    /\ PassRuns
    /\ pattern_pass' = [pattern_pass EXCEPT
                           !.dest = @ \o r.string_buf,
                           !.patterns = Append(@, "full"),
                           !.result = IF r.ok THEN "Ok" ELSE "Err",
                           !.full = r]
    /\ UNCHANGED <<loggerVars, threadVars, workerVars, stdVars, basic_logger>>

NextPattern ==
    \/ PassNew
    \/ PatternLiteral
    \/ PatternLevel
    \/ \E r \in FormatResults : FullFormat(r)

SpecPattern == Init /\ [][NextPattern]_vars

(***************************************************************************)
(* What a call did: its trace.                                             *)
(***************************************************************************)
Events(t, ev) == SelectSeq(trace[t], LAMBDA e : e.ev = ev)

SinksOf(t, ev) == [i \in 1..Len(Events(t, ev)) |-> Events(t, ev)[i].sink]

Count(seq, x) == Cardinality({i \in 1..Len(seq) : seq[i] = x})

Errs(t) == {i \in 1..Len(trace[t]) :
               trace[t][i].ev \in {"log", "flush"} /\ trace[t][i].res = "Err"}

Handled(t) == {i \in 1..Len(trace[t]) : trace[t][i].ev = "handle"}

\* The sinks of the logger that take the level, in list order.
Eligible(l, level) == SelectSeq(sinks[l], LAMBDA s : sink_should_log(s, level))

IsPrefix(a, b) == Len(a) <= Len(b) /\ \A i \in 1..Len(a) : a[i] = b[i]

\* The log-level filter, as the call read it, took the record.
Accepted(t) == call[t].op = "log" /\ Compare(call[t].lf, call[t].level)

\* The call ran a flush pass: Logger::flush, or the flush after a record.
RanFlushPass(t) ==
    \/ call[t].op = "flush"
    \/ Accepted(t) /\ Compare(call[t].ff, call[t].level)

(***************************************************************************)
(* C1: a sink returning Err never stops the pass.  When a log call that    *)
(* passed the logger's filter is over, every sink of the list whose own    *)
(* filter takes the record got exactly one log call and every other sink   *)
(* none; when a flush pass is over every sink got exactly one flush call;  *)
(* and there are as many handler invocations as sinks that returned Err.   *)
(***************************************************************************)
C1_ErrNeverStopsPass ==
    \A t \in Threads :
        pc[t] = "done" =>
            LET l == call[t].logger
            IN  /\ Accepted(t) =>
                     \A i \in 1..Len(sinks[l]) :
                         Count(SinksOf(t, "log"), sinks[l][i]) =
                             IF sink_should_log(sinks[l][i], call[t].level)
                                 THEN 1 ELSE 0
                /\ RanFlushPass(t) =>
                     \A i \in 1..Len(sinks[l]) :
                         Count(SinksOf(t, "flush"), sinks[l][i]) = 1
                /\ Cardinality(Handled(t)) = Cardinality(Errs(t))

\* A log call is over in which an earlier sink failed, a later sink was
\* still called, and the handler ran once.
C1_Witness ==
    \E t \in Threads :
        /\ pc[t] = "done"
        /\ Accepted(t)
        /\ Len(Events(t, "log")) = 2
        /\ Events(t, "log")[1].res = "Err"
        /\ Events(t, "log")[2].res = "Ok"
        /\ Cardinality(Handled(t)) = 1

(***************************************************************************)
(* C2: a record the logger's log-level filter rejects makes Logger::log    *)
(* return at once: no sink is logged to or flushed and no handler runs,    *)
(* also when the flush-level filter takes the level.                       *)
(***************************************************************************)
C2_RejectedTouchesNothing ==
    \A t \in Threads :
        (call[t].op = "log" /\ ~Compare(call[t].lf, call[t].level)) =>
            /\ pc[t] = "done"
            /\ trace[t] = <<>>

\* A rejected record whose level the flush-level filter takes.
C2_Witness ==
    \E t \in Threads :
        /\ pc[t] = "done"
        /\ call[t].op = "log"
        /\ ~Compare(call[t].lf, call[t].level)
        /\ Compare(flush_level_filter[call[t].logger], call[t].level)
        /\ sinks[call[t].logger] # <<>>
        /\ trace[t] = <<>>

(***************************************************************************)
(* C3: a log call that passed the logger's filter ends with one flush call *)
(* on every sink, in list order, if the flush-level filter it read takes   *)
(* the record's level, whether or not a sink logged the record, and with   *)
(* no flush call otherwise; the filter it reads is the logger's            *)
(* flush-level filter of that moment.  So with MoreSevereEqual(Warn) an    *)
(* Info record flushes nothing and a Warn record flushes every sink once,  *)
(* and with Off nothing is flushed.                                        *)
(***************************************************************************)
C3_FlushDecision ==
    \A t \in Threads :
        (pc[t] = "done" /\ Accepted(t)) =>
            /\ SinksOf(t, "flush") =
                   IF Compare(call[t].ff, call[t].level)
                       THEN sinks[call[t].logger] ELSE <<>>
            /\ (call[t].ff = MoreSevereEqual("Warn") /\ call[t].level = "Info")
                   => Events(t, "flush") = <<>>
            /\ (call[t].ff = MoreSevereEqual("Warn") /\ call[t].level = "Warn")
                   => \A i \in 1..Len(sinks[call[t].logger]) :
                          Count(SinksOf(t, "flush"), sinks[call[t].logger][i]) = 1
            /\ call[t].ff = Off => Events(t, "flush") = <<>>

C3_ReadsFlushLevel ==
    \A t \in Threads :
        (pc[t] = "sink_record" /\ pc'[t] \in {"flush_sinks", "done"}) =>
            call'[t].ff = flush_level_filter[call[t].logger]

C3_AutoFlush == []C3_FlushDecision /\ [][C3_ReadsFlushLevel]_vars

\* A record that no sink logged was followed by a full flush pass.
C3_Witness ==
    \E t \in Threads :
        /\ pc[t] = "done"
        /\ Accepted(t)
        /\ Events(t, "log") = <<>>
        /\ sinks[call[t].logger] # <<>>
        /\ SinksOf(t, "flush") = sinks[call[t].logger]

(***************************************************************************)
(* C4: at every point of a log or flush call the sinks logged to so far    *)
(* are a prefix of the logger's eligible sinks in list order, the sinks    *)
(* flushed so far are a prefix of the sink list, and no log call follows   *)
(* a flush call; the sink list is the order of the builder's sink() calls. *)
(***************************************************************************)
C4_InOrder ==
    \A t \in Threads :
        call[t].op \in {"log", "flush"} =>
            /\ IF call[t].op = "log"
                   THEN IsPrefix(SinksOf(t, "log"),
                                 Eligible(call[t].logger, call[t].level))
                   ELSE Events(t, "log") = <<>>
            /\ IsPrefix(SinksOf(t, "flush"), sinks[call[t].logger])
            /\ \A i, j \in 1..Len(trace[t]) :
                   (trace[t][i].ev = "flush" /\ trace[t][j].ev = "log") => j < i

C4_ListIsInsertionOrder ==
    /\ sinks'["builder"] # sinks["builder"] =>
           \E s \in SinkIds : sinks'["builder"] = Append(sinks["builder"], s)
    /\ (alive["main"] = "none" /\ alive'["main"] = "alive") =>
           sinks'["main"] = sinks["builder"]
    /\ alive["main"] = "alive" => sinks'["main"] = sinks["main"]

C4_DispatchOrder == []C4_InOrder /\ [][C4_ListIsInsertionOrder]_vars

\* A log call over a list built in the order 2, 1 logged to both sinks and
\* then flushed both.
C4_Witness ==
    \E t \in Threads :
        /\ pc[t] = "done"
        /\ sinks[call[t].logger] = <<2, 1>>
        /\ SinksOf(t, "log") = <<2, 1>>
        /\ SinksOf(t, "flush") = <<2, 1>>

(***************************************************************************)
(* C5: every Err a sink returns during a log or flush call goes exactly    *)
(* once to one handler, right after the sink returned it: the handler set  *)
(* at that moment, else the default handler, also when set_error_handler   *)
(* ran during the dispatch.  The failing sink is not called again and the  *)
(* sink list stays as it is.                                               *)
(***************************************************************************)
C5_EachErrHandledOnce ==
    \A t \in Threads :
        /\ \A i \in Errs(t) :
               IF i < Len(trace[t])
                   THEN /\ trace[t][i + 1].ev = "handle"
                        /\ trace[t][i + 1].sink = trace[t][i].sink
                   ELSE pc[t] = "handle_error" /\ call[t].errsink = trace[t][i].sink
        /\ \A i \in Handled(t) : i > 1 /\ (i - 1) \in Errs(t)
        /\ pc[t] = "handle_error" => Len(trace[t]) \in Errs(t)
        /\ \A i, j \in 1..Len(trace[t]) :
               (i # j /\ trace[t][i].ev = trace[t][j].ev
                      /\ trace[t][i].ev \in {"log", "flush"})
                   => trace[t][i].sink # trace[t][j].sink

C5_HandlerOfTheMoment ==
    \A t \in Threads :
        (pc[t] = "handle_error" /\ pc'[t] # "handle_error") =>
            /\ Len(trace'[t]) = Len(trace[t]) + 1
            /\ trace'[t][Len(trace'[t])] =
                   Event("handle", call[t].errsink,
                         IF error_handler[call[t].logger] = "none"
                             THEN "default" ELSE error_handler[call[t].logger])
            /\ sinks' = sinks
            /\ pc'[t] \in {"sink_record", "flush_sinks"}

C6_AtMostOne == \A l \in LoggerIds : Cardinality(ActiveWorkers(l)) <= 1

C6_OldEndsBeforeNewStarts ==
    \A w \in WorkerIds :
        (workers[w].state = "unborn" /\ workers'[w].state # "unborn") =>
            \A v \in WorkerIds \ {w} :
                workers[v].logger = workers'[w].logger =>
                    workers[v].state = "terminated"

C6_OneWorker == []C6_AtMostOne /\ [][C6_OldEndsBeforeNewStarts]_vars

\* A worker was replaced by one of the same interval while the other thread
\* waits for the mutex-protected call to end.
C6_Witness ==
    /\ workers[1].state = "terminated"
    /\ workers[2].state = "sleeping"
    /\ workers[2].interval = workers[1].interval
    /\ workers[2].logger = workers[1].logger
    /\ \E t \in Threads : pc[t] = "done" /\ call[t].op = "set_flush_period"

(***************************************************************************)
(* C7: once the last owner has dropped the logger the worker issues no     *)
(* sink flush any more and the logger no longer lives, also when the owner *)
(* drops it in the middle of a flush pass of the worker.                   *)
(***************************************************************************)
C7_NoFlushAfterLastOwner ==
    [][\A w \in WorkerIds :
          (workers[w].logger # "-" /\ owners[workers[w].logger] = 0) =>
              /\ workers'[w].nflush = workers[w].nflush
              /\ alive[workers[w].logger] # "alive"]_vars

(***************************************************************************)
(* C8: a worker made at time s with interval d has run exactly             *)
(* (now - s) \div d flush passes whenever it sleeps, so none before s + d  *)
(* and two when two intervals are over, each pass flushing every sink      *)
(* once; when set_flush_period(None) returns the logger has no worker      *)
(* thread left, and a worker thread that has ended never flushes again; a  *)
(* worker made by a restart counts its intervals from the restart.         *)
(***************************************************************************)
C8_Schedule ==
    \A w \in WorkerIds :
        workers[w].state # "unborn" =>
            /\ workers[w].passes * workers[w].interval <= now - workers[w].start
            /\ (workers[w].state = "sleeping" /\ ~workers[w].stop) =>
                   /\ workers[w].wake =
                          workers[w].start + (workers[w].passes + 1) * workers[w].interval
                   /\ workers[w].nflush =
                          workers[w].passes * Len(sinks[workers[w].logger])
                   /\ now < workers[w].wake =>
                          workers[w].passes =
                              (now - workers[w].start) \div workers[w].interval

C8_NoneStops ==
    /\ \A t \in Threads :
           (pc[t] \in {"sfp_new", "sfp_join"} /\ pc'[t] = "done"
                /\ ~call[t].interval.some) =>
               ActiveWorkers(call[t].logger)' = {}
    /\ \A w \in WorkerIds :
           workers[w].state = "terminated" => workers'[w] = workers[w]

C8_PeriodicFlush == []C8_Schedule /\ [][C8_NoneStops]_vars

\* The first worker flushed and was stopped; the second, made later, has
\* flushed one interval after it was made.
C8_Witness ==
    /\ workers[1].state = "terminated"
    /\ workers[1].passes >= 1
    /\ workers[2].start > 0
    /\ workers[2].passes = 1
    /\ now = workers[2].start + workers[2].interval

(***************************************************************************)
(* C9 as claimed: a clone call panics exactly when the logger owns a       *)
(* worker; a logger without one is duplicated.                             *)
(***************************************************************************)
C9_PanicsOnlyWithWorker ==
    [][\A t \in Threads :
          (pc[t] = "idle" /\ call'[t].op = "clone") =>
              (call'[t].panic <=> periodic_flusher[call'[t].logger] # 0)]_vars

(***************************************************************************)
(* C9, amended: a clone call on a logger that owns a worker panics and     *)
(* yields no duplicate; a clone call on a logger that owns none yields a   *)
(* duplicate unless an earlier set_flush_period call on the logger         *)
(* panicked, which poisons the periodic_flusher mutex: then clone panics   *)
(* as well.                                                                *)
(***************************************************************************)
C9_CloneEnds ==
    \A t \in Threads :
        (pc[t] = "done" /\ call[t].op = "clone") =>
            IF call[t].panic THEN alive["dup"] = "none"
            ELSE alive["dup"] = "alive"

C9_CloneCheck ==
    \A t \in Threads :
        (pc[t] = "idle" /\ call'[t].op = "clone") =>
            LET src == call'[t].logger
            IN  /\ periodic_flusher[src] # 0 =>
                       call'[t].panic /\ pc'[t] = "done" /\ alive' = alive
                /\ (periodic_flusher[src] = 0 /\ ~pf_poisoned[src]) =>
                       ~call'[t].panic /\ pc'[t] # "done"
                /\ pf_poisoned[src] => call'[t].panic

C9_ClonePanics == []C9_CloneEnds /\ [][C9_CloneCheck]_vars

\* A clone call panicked on a logger that owns a sleeping worker.
C9_Witness ==
    \E t \in Threads :
        /\ pc[t] = "done"
        /\ call[t].op = "clone"
        /\ call[t].panic
        /\ periodic_flusher["main"] # 0
        /\ workers[periodic_flusher["main"]].state = "sleeping"
        /\ ~pf_poisoned["main"]

(***************************************************************************)
(* C10: the duplicate gets the log-level and flush-level filters its       *)
(* source had when clone loaded them, the source's sink list, and no       *)
(* worker; after that no step changes the filters or the worker of both    *)
(* loggers: a setter on one leaves the other as it was.                    *)
(***************************************************************************)
ConfigChanged(l) ==
    \/ level_filter'[l] # level_filter[l]
    \/ flush_level_filter'[l] # flush_level_filter[l]
    \/ periodic_flusher'[l] # periodic_flusher[l]
    \/ \E w \in WorkerIds :
          (workers[w].logger = l \/ workers'[w].logger = l) /\ workers'[w] # workers[w]

C10_Step ==
    /\ \A t \in Threads :
          /\ (pc[t] = "clone_level_filter" /\ pc'[t] # pc[t]) =>
                 call'[t].lf = level_filter[call[t].logger]
          /\ (pc[t] = "clone_flush_level_filter" /\ pc'[t] # pc[t]) =>
                 call'[t].ff = flush_level_filter[call[t].logger]
    /\ (alive["dup"] = "none" /\ alive'["dup"] = "alive") =>
          \E t \in Threads :
              /\ pc[t] = "clone_build"
              /\ level_filter'["dup"] = call[t].lf
              /\ flush_level_filter'["dup"] = call[t].ff
              /\ sinks'["dup"] = sinks[call[t].logger]
              /\ periodic_flusher'["dup"] = 0
              /\ ~ConfigChanged(call[t].logger)
    /\ (alive["dup"] = "alive" /\ alive["main"] = "alive") =>
          /\ ~(ConfigChanged("main") /\ ConfigChanged("dup"))
          /\ sinks' = sinks

C10_IndependentDuplicate == [][C10_Step]_vars

\* Source and duplicate have different filters, and the duplicate owns a
\* worker while the source owns none.
C10_Witness ==
    /\ alive["dup"] = "alive"
    /\ alive["main"] = "alive"
    /\ level_filter["dup"] # level_filter["main"]
    /\ flush_level_filter["dup"] # flush_level_filter["main"]
    /\ periodic_flusher["dup"] # 0
    /\ periodic_flusher["main"] = 0

(***************************************************************************)
(* C11 (as the code has it): the duplicate starts with the error handler   *)
(* the source has when clone builds the new logger, so a sink error in the *)
(* duplicate goes to that handler (to the default handler only when the    *)
(* source had none); afterwards set_error_handler on one of the two        *)
(* loggers never changes the other's handler.                              *)
(***************************************************************************)
C11_Step ==
    /\ (alive["dup"] = "none" /\ alive'["dup"] = "alive") =>
          \E t \in Threads :
              /\ pc[t] = "clone_build"
              /\ error_handler'["dup"] = error_handler[call[t].logger]
              /\ error_handler'[call[t].logger] = error_handler[call[t].logger]
    /\ (alive["dup"] = "alive" /\ alive["main"] = "alive") =>
          ~(error_handler'["main"] # error_handler["main"]
              /\ error_handler'["dup"] # error_handler["dup"])
    /\ \A t \in Threads :
          (pc[t] = "handle_error" /\ pc'[t] # "handle_error"
              /\ call[t].logger = "dup") =>
              trace'[t][Len(trace'[t])].res =
                  (IF error_handler["dup"] = "none" THEN "default"
                                                    ELSE error_handler["dup"])

C11_HandlerCopied == [][C11_Step]_vars

\* C11 as stated: the duplicate is built without an error handler.
C11_DuplicateHasNoHandler ==
    [][(alive["dup"] = "none" /\ alive'["dup"] = "alive") =>
           error_handler'["dup"] = "none"]_vars

\* The duplicate holds the handler only the source was ever given, the
\* source has dropped it since, and a sink error of the duplicate went to it.
C11_Witness ==
    /\ alive["dup"] = "alive"
    /\ error_handler["dup"] = "h1"
    /\ error_handler["main"] = "none"
    /\ \E t \in Threads :
          /\ call[t].logger = "dup"
          /\ \E i \in 1..Len(trace[t]) :
                 trace[t][i].ev = "handle" /\ trace[t][i].res = "h1"

(***************************************************************************)
(* C12: set_flush_period(Some(zero)) ends in a panic, never in a returned  *)
(* value: the worker the logger had is dropped first, no worker is made,   *)
(* and no worker that ever ran has a zero interval.                        *)
(***************************************************************************)
C12_NoZeroWorker ==
    /\ \A w \in WorkerIds : workers[w].state # "unborn" => workers[w].interval > 0
    /\ \A t \in Threads :
          (pc[t] = "done" /\ call[t].op = "set_flush_period"
              /\ call[t].interval = Some(0)) => call[t].panic

C12_ZeroStep ==
    \A t \in Threads :
        (pc[t] = "sfp_new" /\ pc'[t] # "sfp_new" /\ call[t].interval = Some(0)) =>
            /\ pc'[t] = "done"
            /\ call'[t].panic
            /\ periodic_flusher[call[t].logger] = 0
            /\ periodic_flusher' = periodic_flusher
            /\ workers' = workers

C12_ZeroIntervalPanics == []C12_NoZeroWorker /\ [][C12_ZeroStep]_vars

\* A call with a zero interval on a logger that had a worker has panicked:
\* the old worker was stopped and the logger is left without one.
C12_Witness ==
    \E t \in Threads :
        /\ pc[t] = "done"
        /\ call[t].op = "set_flush_period"
        /\ call[t].interval = Some(0)
        /\ call[t].panic
        /\ periodic_flusher["main"] = 0
        /\ workers[1].logger = "main"
        /\ workers[1].state = "terminated"
        /\ workers[2].state = "unborn"

(***************************************************************************)
(* What a StdStreamSink call sent to the destination.                      *)
(***************************************************************************)
OpsOf(t) == SelectSeq(dest_ops, LAMBDA e : e.by = t)

WritesOf(t) == SelectSeq(OpsOf(t), LAMBDA e : e.op = "write")

FlushesOf(t) == SelectSeq(OpsOf(t), LAMBDA e : e.op = "flush")

RECURSIVE Emitted(_)
Emitted(ops) == IF ops = <<>> THEN <<>> ELSE ops[1].bytes \o Emitted(Tail(ops))

\* The bytes that are left when the inserted codes are taken out.
StripCodes(bytes) == SelectSeq(bytes, LAMBDA b : b.kind = "text")

\* The log call of t wrote its record: every write_all returned Ok.
Wrote(t) ==
    /\ std_call[t].op = "log"
    /\ std_call[t].written > 0
    /\ std_pc[t] \in {"after_write", "done"}
    /\ std_call[t].result # "WriteRecord"

(***************************************************************************)
(* C13: a log call that styles (styling on and a style range reported)     *)
(* makes five writes in this order: the bytes before the range, the start  *)
(* code of the level, the bytes of the range, the end code, the bytes      *)
(* after the range; any other log call makes one write of the whole        *)
(* buffer; with the codes taken out the emitted bytes are the buffer.      *)
(***************************************************************************)
C13_StyledWrites ==
    \A t \in Threads :
        Wrote(t) =>
            LET c == std_call[t]
                w == WritesOf(t)
            IN  /\ \A i \in 1..Len(w) : w[i].ok
                /\ StripCodes(Emitted(w)) = c.string_buf
                /\ IF std_sink.should_render_style /\ c.style_range.some
                     THEN /\ Len(w) = 5
                          /\ Len(w[1].bytes) = c.style_range.start
                          /\ Len(w[3].bytes) = c.style_range.end - c.style_range.start
                          /\ w[1].bytes \o w[3].bytes \o w[5].bytes = c.string_buf
                          /\ w[2].bytes = <<[kind |-> "start", v |-> Rank(c.level)]>>
                          /\ w[4].bytes = <<[kind |-> "end", v |-> 0]>>
                     ELSE /\ Len(w) = 1
                          /\ w[1].bytes = c.string_buf

\* A styled record whose style range starts after the first byte and is not
\* empty went out in five writes.
C13_Witness ==
    \E t \in Threads :
        /\ Wrote(t)
        /\ std_pc[t] = "done"
        /\ std_call[t].result = "Ok"
        /\ std_call[t].style_range.some
        /\ std_call[t].style_range.start > 0
        /\ std_call[t].style_range.end > std_call[t].style_range.start
        /\ Len(WritesOf(t)) = 5

C15_FlushWithEachLog ==
    \A t \in Threads :
        (Wrote(t) /\ std_pc[t] = "done") => Len(FlushesOf(t)) = 1

(***************************************************************************)
(* C16: a log call whose level the sink's filter rejects returns Ok at     *)
(* once: it never takes the formatter or the destination, formats nothing, *)
(* and the destination receives no write and no flush from it.             *)
(***************************************************************************)
C16_RejectedIsNoOp ==
    \A t \in Threads :
        (std_call[t].op = "log"
            /\ ~(std_sink.level_filter.kind = "All"
                   \/ (std_sink.level_filter.kind = "MoreSevereEqual"
                         /\ Rank(std_call[t].level) <= Rank(std_sink.level_filter.level)))) =>
            /\ std_pc[t] \in {"done", "idle"}
            /\ std_call[t].result = "Ok"
            /\ std_call[t].string_buf = <<>>
            /\ std_call[t].written = 0
            /\ OpsOf(t) = <<>>
            /\ t \notin formatter_lock
            /\ dest_lock # t

\* A Debug record was given to a sink that takes Warn and more severe.
C16_Witness ==
    \E t \in Threads :
        /\ std_call[t].op = "log"
        /\ std_call[t].level = "Debug"
        /\ std_sink.level_filter = MoreSevereEqual("Warn")
        /\ std_pc[t] = "done"
        /\ std_call[t].result = "Ok"

(***************************************************************************)
(* C17: the sink's should_render_style is false for Never, true for        *)
(* Always, and for Auto true exactly when the destination is a terminal    *)
(* and the capability probe succeeds; while the mode is Never the          *)
(* destination receives no byte of a style code.                           *)
(***************************************************************************)
C17_Flag ==
    std_sink.should_render_style =
        (\/ std_sink.style_mode = "Always"
         \/ /\ std_sink.style_mode = "Auto"
            /\ terminal.is_terminal[std_sink.dest]
            /\ terminal.ansi)

C17_NeverMeansNoCode ==
    (std_sink.style_mode = "Never" /\ Len(dest_ops') > Len(dest_ops)) =>
        \A i \in 1..Len(dest_ops'[Len(dest_ops')].bytes) :
            dest_ops'[Len(dest_ops')].bytes[i].kind = "text"

C17_StyleMode == []C17_Flag /\ [][C17_NeverMeansNoCode]_vars

\* Mode Always on a destination that is no terminal: a start code went out.
C17_Witness ==
    /\ std_sink.style_mode = "Always"
    /\ ~terminal.is_terminal[std_sink.dest]
    /\ \E i \in 1..Len(dest_ops) :
          /\ dest_ops[i].op = "write"
          /\ dest_ops[i].bytes # <<>>
          /\ dest_ops[i].bytes[1].kind = "start"

(***************************************************************************)
(* C18: each of the three level checks accepts a level under the filter    *)
(* "L and more severe" exactly when the level is L or comes before L in    *)
(* the order of severity, so of two neighbouring levels the filter of the  *)
(* more severe one takes that one and rejects the other; Off accepts       *)
(* nothing.                                                                *)
(***************************************************************************)
C18_Boundary ==
    checked.by # "-" =>
        LET passing == IF checked.filter.kind = "Off" THEN {}
                       ELSE {Levels[i] : i \in 1..Len(Levels)} \
                            {Levels[j] : j \in {k \in 1..Len(Levels) :
                                \E i \in 1..(k - 1) : Levels[i] = checked.filter.level}}
        IN  checked.result <=> (checked.level \in passing)

\* The default check of a sink took Warn under "Warn and more severe".
C18_Witness ==
    /\ checked.by = "Sink::enabled"
    /\ checked.filter = MoreSevereEqual("Warn")
    /\ checked.level = "Warn"
    /\ checked.result

(***************************************************************************)
(* C19: the writes and the flush of one call are never mixed with those of *)
(* another call on the same sink: the destination's lock is held from the  *)
(* first write to the last write or flush; the formatter's read lock is    *)
(* held while formatting only, never by a thread that waits for the        *)
(* destination or writes to it, so set_formatter can go on then.           *)
(***************************************************************************)
C19_Serialized ==
    /\ \A i, j, k \in 1..Len(dest_ops) :
          (i < j /\ j < k /\ dest_ops[i].by = dest_ops[k].by) =>
              dest_ops[j].by = dest_ops[i].by
    /\ \A t \in Threads :
          /\ (std_pc[t] \in {"write", "after_write"}) <=> (dest_lock = t)
          /\ (t \in formatter_lock) <=> (std_pc[t] = "formatting")

\* One thread is in the middle of the five writes of a record, the other
\* has formatted its record and waits for the destination, and the
\* formatter was replaced meanwhile.
C19_Witness ==
    \E t, u \in Threads :
        /\ t # u
        /\ std_pc[t] = "write"
        /\ std_call[t].written \in 1..3
        /\ std_pc[u] = "lock"
        /\ OpsOf(u) = <<>>
        /\ formatter_lock = {}
        /\ std_sink.formatter = "f2"

(***************************************************************************)
(* C20: a log call one of whose writes fails returns WriteRecord: the      *)
(* failed write is the last thing the destination gets from the call, it   *)
(* is made once, and no flush follows; a log call whose writes succeeded   *)
(* and whose flush of Stdout fails returns FlushBuffer.                    *)
(***************************************************************************)
C20_WriteFailure ==
    \A t \in Threads :
        LET c == std_call[t]
            ops == OpsOf(t)
            failed == {i \in 1..Len(ops) : ~ops[i].ok}
        IN  (c.op = "log" /\ std_pc[t] \in {"done", "idle"}) =>
                /\ Cardinality(failed) <= 1
                /\ failed # {} => failed = {Len(ops)}
                /\ (c.result = "WriteRecord") <=>
                       (failed # {} /\ ops[Len(ops)].op = "write")
                /\ (c.result = "FlushBuffer") <=>
                       (failed # {} /\ ops[Len(ops)].op = "flush")
                /\ c.result = "WriteRecord" =>
                       /\ FlushesOf(t) = <<>>
                       /\ Len(WritesOf(t)) = c.written + 1
                       /\ dest_lock # t
                /\ c.result = "FlushBuffer" =>
                       /\ std_sink.dest = "Stdout"
                       /\ Len(FlushesOf(t)) = 1
                       /\ Len(WritesOf(t)) = c.written
                       /\ Len(WritesOf(t)) \in {1, 5}

\* The third of the five writes of a styled record failed.
C20_Witness ==
    \E t \in Threads :
        /\ std_call[t].op = "log"
        /\ std_call[t].result = "WriteRecord"
        /\ std_pc[t] = "done"
        /\ std_call[t].written = 2
        /\ Len(OpsOf(t)) = 3

(***************************************************************************)
(* C21: a log call whose formatting fails returns that error and emits     *)
(* nothing: what the formatter had put into the buffer is dropped with the *)
(* call, the destination is never locked by the call and receives no write *)
(* and no flush from it.                                                   *)
(***************************************************************************)
C21_NothingEmitted ==
    \A t \in Threads :
        /\ std_call[t].result = "FormatRecord" =>
               /\ std_pc[t] \in {"done", "idle"}
               /\ OpsOf(t) = <<>>
               /\ std_call[t].written = 0
               /\ dest_lock # t
               /\ t \notin formatter_lock
        /\ (std_call[t].op = "log" /\ std_pc[t] \in {"format", "formatting"}) =>
               OpsOf(t) = <<>> /\ dest_lock # t

C21_FormatStep ==
    \A t \in Threads :
        (std_pc[t] = "formatting" /\ std_pc'[t] = "done") =>
            /\ std_call'[t].result = "FormatRecord"
            /\ dest_ops' = dest_ops
            /\ dest_lock' = dest_lock

C21_FormatFailure == []C21_NothingEmitted /\ [][C21_FormatStep]_vars

\* The formatter failed after it had put bytes into the buffer.
C21_Witness ==
    \E t \in Threads :
        /\ std_pc[t] = "done"
        /\ std_call[t].result = "FormatRecord"
        /\ std_call[t].string_buf # <<>>

(***************************************************************************)
(* C22: Logger::log reads the log-level filter once, before any sink is    *)
(* touched, and a set_level_filter that runs during the dispatch changes   *)
(* nothing of it: when the loop over the sinks is over, either no sink was *)
(* logged to or every sink whose own filter takes the level was, once and  *)
(* in list order.  The flush-level filter is read once, when the loop is   *)
(* over, and decides alone whether the flush pass runs.                    *)
(***************************************************************************)
C22_NoPartialDispatch ==
    \A t \in Threads :
        (call[t].op = "log"
            /\ \/ pc[t] \in {"flush_sinks", "done"}
               \/ pc[t] = "sink_record" /\ call[t].idx > Len(sinks[call[t].logger])) =>
            LET logged == SinksOf(t, "log")
                takers == SelectSeq(sinks[call[t].logger],
                                    LAMBDA s : Compare(SinkLevelFilter(s), call[t].level))
            IN  /\ logged = <<>> \/ logged = takers
                /\ Compare(call[t].lf, call[t].level) => logged = takers
                /\ ~Compare(call[t].lf, call[t].level) => trace[t] = <<>>

C22_ReadOnce ==
    \A t \in Threads :
        /\ (pc[t] = "idle" /\ call'[t].op = "log" /\ pc'[t] # "idle") =>
               /\ call'[t].lf = level_filter[call'[t].logger]
               /\ trace'[t] = <<>>
               /\ (pc'[t] = "sink_record") <=>
                      Compare(level_filter[call'[t].logger], call'[t].level)
        /\ (call[t].op = "log" /\ pc[t] \notin {"idle", "done"}) =>
               call'[t].lf = call[t].lf
        /\ (call[t].op = "log" /\ pc[t] = "sink_record"
               /\ pc'[t] \in {"flush_sinks", "done"}) =>
               /\ call[t].idx > Len(sinks[call[t].logger])
               /\ Events(t, "flush") = <<>>
               /\ (pc'[t] = "flush_sinks") <=>
                      Compare(flush_level_filter[call[t].logger], call[t].level)
        /\ (call[t].op = "log" /\ pc[t] = "flush_sinks" /\ pc'[t] # "done") =>
               call'[t].ff = call[t].ff

C22_AtomicFilters == []C22_NoPartialDispatch /\ [][C22_ReadOnce]_vars

\* In the middle of a dispatch, after a sink was logged to, the logger's
\* level filter rejects the level of the record that is being dispatched.
C22_Witness ==
    \E t \in Threads :
        /\ call[t].op = "log"
        /\ pc[t] = "sink_record"
        /\ call[t].idx = 2
        /\ Len(Events(t, "log")) = 1
        /\ Len(sinks[call[t].logger]) = NSinks
        /\ Compare(call[t].lf, call[t].level)
        /\ ~Compare(level_filter[call[t].logger], call[t].level)

(***************************************************************************)
(* C23: BasicLogger::log touches no sink when the logger's level does not  *)
(* take the record; otherwise it logs once to every sink whose enabled     *)
(* check takes it, in list order, also after a sink returned Err; an Err   *)
(* goes to the handler, right after the sink returned it, if a handler was *)
(* set, and nowhere if none was set; no sink is ever flushed, neither by   *)
(* log nor by BasicLogger::flush.                                          *)
(***************************************************************************)
C23_BasicDispatch ==
    \A t \in Threads :
        (call[t].logger = "basic" /\ pc[t] # "idle") =>
            LET tr == trace[t]
                takers == SelectSeq(basic_logger.sinks,
                              LAMBDA s : Rank(call[t].level) <= Rank(BasicSinkLevel(s).level))
                passes == /\ basic_logger.level.kind # "Off"
                          /\ Rank(call[t].level) <= Rank(basic_logger.level.level)
            IN  /\ Events(t, "flush") = <<>>
                /\ call[t].op = "flush" => tr = <<>> /\ pc[t] = "done"
                /\ (call[t].op = "log" /\ ~passes) => tr = <<>> /\ pc[t] = "done"
                /\ (call[t].op = "log" /\ passes) =>
                       /\ IsPrefix(SinksOf(t, "log"), takers)
                       /\ pc[t] = "done" => SinksOf(t, "log") = takers
                /\ \A i \in 1..Len(tr) :
                       /\ (tr[i].ev = "log" /\ tr[i].res = "Err"
                             /\ basic_logger.error_handler # "none") =>
                              /\ i < Len(tr)
                              /\ tr[i + 1] = Event("handle", tr[i].sink,
                                                   basic_logger.error_handler)
                       /\ tr[i].ev = "handle" =>
                              /\ basic_logger.error_handler # "none"
                              /\ i > 1
                              /\ tr[i - 1].ev = "log"
                              /\ tr[i - 1].res = "Err"

\* Without a handler the first sink returned Err, nothing handled it, and
\* the second sink logged the record all the same.
C23_Witness ==
    \E t \in Threads :
        /\ call[t].logger = "basic"
        /\ call[t].op = "log"
        /\ pc[t] = "done"
        /\ basic_logger.error_handler = "none"
        /\ Len(trace[t]) = 2
        /\ trace[t][1].ev = "log" /\ trace[t][1].res = "Err"
        /\ trace[t][2].ev = "log" /\ trace[t][2].res = "Ok"

(***************************************************************************)
(* C24: the Full pattern puts at the end of the buffer exactly the text    *)
(* FullFormatter gives for the record, what was in the buffer stays; it    *)
(* returns Ok when FullFormatter does and its error otherwise; the style   *)
(* range of the context is after Full what it was before, so a pass in     *)
(* which no other pattern set a style range ends with None, whatever range *)
(* FullFormatter reported.                                                 *)
(***************************************************************************)
C24_FullStep ==
    (Len(pattern_pass'.patterns) = Len(pattern_pass.patterns) + 1
        /\ pattern_pass'.patterns[Len(pattern_pass'.patterns)] = "full") =>
        LET text == pattern_pass'.full.string_buf
            old == Len(pattern_pass.dest)
        IN  /\ Len(pattern_pass'.dest) = old + Len(text)
            /\ \A i \in 1..old : pattern_pass'.dest[i] = pattern_pass.dest[i]
            /\ \A i \in 1..Len(text) : pattern_pass'.dest[old + i] = text[i]
            /\ pattern_pass'.result = (IF pattern_pass'.full.ok THEN "Ok" ELSE "Err")
            /\ pattern_pass'.style_range = pattern_pass.style_range

C24_NoLevelNoRange ==
    (\A i \in 1..Len(pattern_pass.patterns) : pattern_pass.patterns[i] # "level") =>
        ~pattern_pass.style_range.some

C24_FullPattern == []C24_NoLevelNoRange /\ [][C24_FullStep]_vars

\* After a literal the Full pattern ran, FullFormatter reported a style
\* range for its text, and the context has none.
C24_Witness ==
    /\ pattern_pass.patterns = <<"literal", "full">>
    /\ pattern_pass.result = "Ok"
    /\ pattern_pass.full.style_range.some
    /\ pattern_pass.full.style_range.end > pattern_pass.full.style_range.start
    /\ Len(pattern_pass.dest) = 1 + MaxBuf
    /\ ~pattern_pass.style_range.some

=============================================================================
